---- MODULE Spec2Model ----
(***************************************************************************)
(* tensr-signal-agent: the Run Store (database.py), the pipeline           *)
(* invocation (orchestrator.py, signal_scout.py, signal_scorer.py) and the *)
(* dashboard's run-pipeline endpoint (server.py).                          *)
(*                                                                         *)
(* The specifications share the variables:                                 *)
(*   Spec          the Run Store: write passes step by step inside their   *)
(*                 SQLite transaction, purges and dashboard reads          *)
(*   PipelineSpec  one orchestrator invocation after another               *)
(*   ServerSpec    concurrent POST /api/run-pipeline requests              *)
(*   ServerLiveSpec  the same under fair scheduling of the streams         *)
(*   ScoutSpec     the scout's phases 3 to 12 on one batch                 *)
(* and one specification per function called on its own, its arguments     *)
(* and result in the variable call: FingerprintSpec, DedupeSpec,           *)
(* RecencySpec, CryptoSpec, ProfileSpec, ScoreSpec, AgeSpec,               *)
(* RebalanceSpec, WindowSpec.                                              *)
(***************************************************************************)
EXTENDS Integers, Sequences, FiniteSets, TLC

(***************************************************************************)
(* Bounds of the model.                                                    *)
(***************************************************************************)
MaxRuns == 2          \* scout_runs ids ever allocated
MaxSignals == 2       \* signals ids ever allocated
MaxReportLen == 2     \* records in one report's "signals" array
MaxRequests == 3      \* POST /api/run-pipeline requests
MaxTargets == 2       \* profiles named by one request

(***************************************************************************)
(* Values.  NULL stands for SQL NULL, Python None and an absent JSON key   *)
(* (dict.get returns None for all three); NULLI is NULL in a numeric       *)
(* column.  BLANK is a whitespace-only string, which str.strip() and SQL   *)
(* TRIM() turn into "".                                                    *)
(***************************************************************************)
NULL == "NULL"
NULLI == -1
BLANK == "  "

\* str.strip() and SQL TRIM() on the strings of the model.
Trim(x) ==
  CASE x = BLANK -> ""
    [] x = " Acme " -> "Acme"
    [] x = " HIRE" -> "HIRE"
    [] x = "2025-01 " -> "2025-01"
    [] x = " U1 " -> "U1"
    [] OTHER -> x

\* Python truthiness of an optional string: None and "" are falsy.
Truthy(x) == x # NULL /\ x # ""

\* sig.get(k) or "Unspecified"
OrUnspecified(x) == IF Truthy(x) THEN x ELSE "Unspecified"

\* SQL: a = b is true only when neither side is NULL.
SqlEq(a, b) == a # NULL /\ b # NULL /\ a = b

\* SQL: COALESCE(x, '')
Coalesce(x) == IF x = NULL THEN "" ELSE x

(***************************************************************************)
(* Report records (elements of a report's "signals" array).  wellformed is *)
(* FALSE for an element on which the pass raises: one that is not a JSON   *)
(* object (sig.get) or whose score_breakdown is null (breakdown.get).      *)
(***************************************************************************)
NoBreakdown ==
  [action_type |-> NULLI, seniority |-> NULLI, domain_fit |-> NULLI,
   institution_accessibility |-> NULLI, recency |-> NULLI,
   seniority_inferred |-> FALSE]

Base ==
  [wellformed |-> TRUE,
   institution |-> "acme", signal_type |-> "hire",
   signal_date |-> "2025-01", source_url |-> "u1",
   country |-> "PL", region |-> "EE", domain |-> "ai_transformation",
   institution_tier |-> "other", institution_type |-> NULL,
   seniority |-> "vp", summary |-> "s1",
   total_score |-> NULLI, priority_tier |-> NULL,
   score_breakdown |-> NoBreakdown]

\* The same identity with other descriptive fields.
BaseAlt ==
  [Base EXCEPT !.country = BLANK, !.region = NULL, !.summary = "s2",
               !.institution_tier = NULL, !.institution_type = "fintech"]

NotAnObject == [Base EXCEPT !.wellformed = FALSE]

ScoutPool ==
  { Base, NotAnObject,
    [Base EXCEPT !.institution = NULL],
    [Base EXCEPT !.signal_date = NULL] }

ScoreHot ==
  [total_score |-> 85, priority_tier |-> "HOT",
   score_breakdown |->
     [action_type |-> 30, seniority |-> 15, domain_fit |-> 25,
      institution_accessibility |-> 5, recency |-> 10,
      seniority_inferred |-> TRUE]]

ScoreWarm ==
  [total_score |-> 65, priority_tier |-> "warm",
   score_breakdown |->
     [action_type |-> 20, seniority |-> 15, domain_fit |-> 14,
      institution_accessibility |-> 12, recency |-> 4,
      seniority_inferred |-> FALSE]]

ScoreNurture ==
  [total_score |-> 45, priority_tier |-> "NURTURE",
   score_breakdown |-> NoBreakdown]

ScoreOdd ==
  [total_score |-> NULLI, priority_tier |-> "URGENT",
   score_breakdown |-> NoBreakdown]

WithScore(sig, sc) ==
  [sig EXCEPT !.total_score = sc.total_score,
              !.priority_tier = sc.priority_tier,
              !.score_breakdown = sc.score_breakdown]

ScoredPool ==
  { WithScore(Base, ScoreHot), WithScore(BaseAlt, ScoreWarm), NotAnObject,
    WithScore([Base EXCEPT !.institution = NULL], ScoreNurture),
    WithScore([Base EXCEPT !.signal_date = ""], ScoreOdd) }

\* <<"signal_report", n>> stands for the file name signal_report_<n>.json;
\* the n of the real name is the time the scout wrote it.
ReportName(n) == <<"signal_report", n>>
NoName == <<"none", 0>>
Files == { ReportName(n) : n \in 1..MaxRuns }
ScoutTimestamp == "t1"
ScoredTimestamp == "t2"

SeqsUpTo(S, n) == UNION { [1..k -> S] : k \in 0..n }

(***************************************************************************)
(* The database: the two tables and the AUTOINCREMENT counters             *)
(* (sqlite_sequence), which never hand out an id twice.                    *)
(***************************************************************************)
EmptyDb ==
  [scout_runs |-> {}, signals |-> {},
   seq |-> [scout_runs |-> 0, signals |-> 0]]

RunRow(id, timestamp, queries_used, results_found, output_file, profile_file) ==
  [id |-> id, timestamp |-> timestamp, queries_used |-> queries_used,
   results_found |-> results_found, output_file |-> output_file,
   profile_file |-> profile_file,
   profile_json |-> IF profile_file = NULL THEN NULL ELSE "profile-text"]

\* init_db: the country / region normalisation it commits on every call.
NormalizeGeo(row) ==
  [row EXCEPT
     !.country = IF @ = NULL \/ Trim(@) = "" THEN "Unspecified" ELSE @,
     !.region  = IF @ = NULL \/ Trim(@) = "" THEN "Unspecified" ELSE @]

init_db(d) == [d EXCEPT !.signals = { NormalizeGeo(r) : r \in d.signals }]

MinId(rows) == CHOOSE i \in { r.id : r \in rows } : \A r \in rows : i <= r.id
MaxId(rows) == CHOOSE i \in { r.id : r \in rows } : \A r \in rows : i >= r.id
RowById(rows, id) == CHOOSE r \in rows : r.id = id

InsertRun(d, timestamp, queries_used, results_found, output_file, profile_file) ==
  LET id == d.seq.scout_runs + 1
  IN  [d EXCEPT
         !.scout_runs = @ \cup {RunRow(id, timestamp, queries_used,
                                       results_found, output_file, profile_file)},
         !.seq.scout_runs = id]

\* write_scout_run: one signals row, score fields left NULL.
ScoutSignalRow(id, run_id, sig) ==
  [id |-> id, run_id |-> run_id,
   institution |-> sig.institution,
   country |-> OrUnspecified(sig.country),
   region |-> OrUnspecified(sig.region),
   signal_type |-> sig.signal_type,
   signal_date |-> sig.signal_date,
   domain |-> sig.domain,
   institution_tier |-> sig.institution_tier,
   seniority |-> sig.seniority,
   source_url |-> sig.source_url,
   summary |-> sig.summary,
   total_score |-> NULLI, priority_tier |-> NULL,
   action_pts |-> NULLI, seniority_pts |-> NULLI, domain_pts |-> NULLI,
   accessibility_pts |-> NULLI, recency_pts |-> NULLI,
   seniority_inferred |-> 0, scored_at |-> NULL]

InsertScoutSignal(d, run_id, sig) ==
  LET id == d.seq.signals + 1
  IN  [d EXCEPT !.signals = @ \cup {ScoutSignalRow(id, run_id, sig)},
                !.seq.signals = id]

_extract_score_fields(sig) ==
  [total_score |-> sig.total_score,
   priority_tier |-> sig.priority_tier,
   action_pts |-> sig.score_breakdown.action_type,
   seniority_pts |-> sig.score_breakdown.seniority,
   domain_pts |-> sig.score_breakdown.domain_fit,
   accessibility_pts |-> sig.score_breakdown.institution_accessibility,
   recency_pts |-> sig.score_breakdown.recency,
   seniority_inferred |-> IF sig.score_breakdown.seniority_inferred THEN 1 ELSE 0]

\* The WHERE clause of write_scored_run's lookup of an existing row.
MatchesExisting(row, run_id, sig) ==
  /\ row.run_id = run_id
  /\ SqlEq(row.institution, sig.institution)
  /\ SqlEq(row.signal_type, sig.signal_type)
  /\ Coalesce(row.signal_date) = Coalesce(sig.signal_date)
  /\ Coalesce(row.source_url) = Coalesce(sig.source_url)

UpdateScores(row, f, scored_at) ==
  [row EXCEPT !.total_score = f.total_score,
              !.priority_tier = f.priority_tier,
              !.action_pts = f.action_pts,
              !.seniority_pts = f.seniority_pts,
              !.domain_pts = f.domain_pts,
              !.accessibility_pts = f.accessibility_pts,
              !.recency_pts = f.recency_pts,
              !.seniority_inferred = f.seniority_inferred,
              !.scored_at = scored_at]

ScoredSignalRow(id, run_id, sig, f, scored_at) ==
  UpdateScores(
    [ScoutSignalRow(id, run_id, sig) EXCEPT
       !.institution_tier = IF Truthy(sig.institution_tier)
                            THEN sig.institution_tier
                            ELSE sig.institution_type],
    f, scored_at)

\* One iteration of write_scored_run's loop: update the first matching row
\* (table scan in rowid order, LIMIT 1) or insert a new one.
UpsertScoredSignal(d, run_id, sig, scored_at) ==
  LET f == _extract_score_fields(sig)
      existing == { r \in d.signals : MatchesExisting(r, run_id, sig) }
  IN  IF existing # {}
      THEN LET row == RowById(existing, MinId(existing))
           IN  [d EXCEPT !.signals =
                  (@ \ {row}) \cup {UpdateScores(row, f, scored_at)}]
      ELSE LET id == d.seq.signals + 1
           IN  [d EXCEPT !.signals =
                  @ \cup {ScoredSignalRow(id, run_id, sig, f, scored_at)},
                         !.seq.signals = id]

\* A lookup that takes any stored run for the report's run.
RunsByOutputFile_AnyRun(d, source_report) == d.scout_runs

\* SELECT id FROM scout_runs WHERE output_file = ? ... fetchone()
RunsByOutputFile(d, source_report) ==
  { r \in d.scout_runs : r.output_file = source_report }

\* PRAGMA foreign_keys = ON: signals.run_id REFERENCES scout_runs(id)
ForeignKeyOk(d, run_id) == \E r \in d.scout_runs : r.id = run_id

(***************************************************************************)
(* Purges and reads, as functions of the committed database.               *)
(***************************************************************************)
\* A purge that removes the run row and leaves its signals behind.
delete_batch_RunOnly(d, run_id) ==
  [d EXCEPT !.scout_runs = { r \in @ : r.id # run_id }]

\* delete_batch after its init_db: the run and its signals, together.
delete_batch(d, run_id) ==
  IF \E r \in d.scout_runs : r.id = run_id
  THEN [d EXCEPT !.signals = { s \in @ : s.run_id # run_id },
                 !.scout_runs = { r \in @ : r.id # run_id }]
  ELSE d

\* delete_runs_by_ids after its init_db: run_ids is the set of the distinct
\* ids of the list (unique_ids); nothing is executed when it is empty.
delete_runs_by_ids(d, run_ids) ==
  IF run_ids = {} THEN d
  ELSE [d EXCEPT !.signals = { s \in @ : s.run_id \notin run_ids },
                 !.scout_runs = { r \in @ : r.id \notin run_ids }]

Upper(t) ==
  CASE t = "warm" -> "WARM"
    [] t = "hot" -> "HOT"
    [] t = "nurture" -> "NURTURE"
    [] t = "hold" -> "HOLD"
    [] OTHER -> t

TierNames == {"HOT", "WARM", "NURTURE", "HOLD"}

\* The loop of get_summary over the fetched priority_tier values.
RECURSIVE CountTiers(_, _)
CountTiers(rows, counts) ==
  IF rows = {} THEN counts
  ELSE LET row == RowById(rows, MinId(rows))
           tier == Upper(IF row.priority_tier = NULL \/ row.priority_tier = ""
                         THEN "HOLD" ELSE row.priority_tier)
           key == IF tier \in TierNames THEN tier ELSE "HOLD"
       IN  CountTiers(rows \ {row}, [counts EXCEPT ![key] = @ + 1])

NoSummary ==
  [run_id |-> NULLI, timestamp |-> NULL,
   HOT |-> 0, WARM |-> 0, NURTURE |-> 0, HOLD |-> 0, total |-> 0]

\* The oldest run instead of the latest.
LatestRunId_Oldest(d) == MinId(d.scout_runs)

\* SELECT id FROM scout_runs ORDER BY id DESC LIMIT 1
LatestRunId(d) == MaxId(d.scout_runs)

\* get_summary; on an empty store run_id is None (NULLI).
get_summary(d) ==
  IF d.scout_runs = {} THEN NoSummary
  ELSE LET run == RowById(d.scout_runs, LatestRunId(d))
           rows == { s \in d.signals : s.run_id = run.id }
           counts == CountTiers(rows, [t \in TierNames |-> 0])
       IN  [run_id |-> run.id, timestamp |-> run.timestamp,
            HOT |-> counts["HOT"], WARM |-> counts["WARM"],
            NURTURE |-> counts["NURTURE"], HOLD |-> counts["HOLD"],
            total |-> Cardinality(rows)]

\* get_latest_run: the ids of the latest run's rows.
get_latest_run(d) ==
  IF d.scout_runs = {} THEN {}
  ELSE { s.id : s \in { r \in d.signals : r.run_id = LatestRunId(d) } }

\* str.lower() on the strings of the model.
Lower(x) ==
  CASE x = "PL" -> "pl"
    [] x = "EE" -> "ee"
    [] x \in {"Acme", "ACME"} -> "acme"
    [] x = "HIRE" -> "hire"
    [] x = "U1" -> "u1"
    [] x = "Crypto" -> "crypto"
    [] x = "Poland" -> "poland"
    [] x = "Saudi Arabia" -> "saudi arabia"
    [] x = "UAE" -> "uae"
    [] x = "Tier1" -> "tier1"
    [] x = "Unknown" -> "unknown"
    [] x = "Partnership" -> "partnership"
    [] x = "Stablecoin" -> "stablecoin"
    [] x = "Recency" -> "recency"
    [] OTHER -> x

\* A normalisation that strips and keeps the letter case.
Normalized_KeepsCase(x) == Trim(IF x = NULL THEN "" ELSE x)

\* (sig.get(k) or "").strip().lower()
Normalized(x) == Lower(Trim(IF x = NULL THEN "" ELSE x))

signal_fingerprint(sig) ==
  IF Normalized(sig.source_url) # ""
  THEN <<"url", Normalized(sig.source_url)>>
  ELSE <<"triple", Normalized(sig.institution),
         Normalized(sig.signal_type), Normalized(sig.signal_date)>>

\* An index that covers the records of the latest run only.
get_existing_fingerprints_LatestRun(d) ==
  { signal_fingerprint(r) :
      r \in { s \in d.signals : d.scout_runs # {} /\ s.run_id = LatestRunId(d) } }

get_existing_fingerprints(d) == { signal_fingerprint(r) : r \in d.signals }

(***************************************************************************)
(* State.                                                                  *)
(*   db      the committed database, what every other connection reads     *)
(*   conn    the connection of the write pass in flight: its position in   *)
(*           the report, and work, its uncommitted copy once it has        *)
(*           written (locked: it holds SQLite's write lock)                *)
(*   last    how the last write pass ended and what it was given           *)
(*   rd      a dashboard read between its init_db and its SELECTs          *)
(*   result  what the last read returned                                   *)
(*   pl      the orchestrator invocation: where it is, its profile, what   *)
(*           the scout parsed, the report files, db0 the database when it  *)
(*           began                                                         *)
(*   srv     _pipeline_state and the run-pipeline requests                 *)
(*   call    one call of a function of the pipeline on its own: the        *)
(*           function, its arguments, how many times it has been called    *)
(*           and what it returned                                          *)
(***************************************************************************)
VARIABLES db, conn, last, rd, result, pl, srv, call

vars == <<db, conn, last, rd, result, pl, srv, call>>

NoReport == [name |-> NoName, timestamp |-> NULL, queries_used |-> 0,
             profile_file |-> NULL, signals |-> <<>>]

NoConn ==
  [op |-> "none", locked |-> FALSE, work |-> EmptyDb, report |-> NoReport,
   todo |-> <<>>, run_id |-> 0, had_run |-> FALSE, repeat |-> FALSE,
   alone |-> TRUE, pre |-> EmptyDb]

NoLast ==
  [op |-> "none", outcome |-> "none", report |-> NoReport,
   had_run |-> FALSE, repeat |-> FALSE, alone |-> TRUE,
   pre_runs |-> {}, pre_count |-> 0, pre |-> EmptyDb]

NoResult == [op |-> "none", summary |-> NoSummary, ids |-> {}, fps |-> {}]

\* resolve_profile_targets(None)
DefaultTargets ==
  [min_count |-> 20, max_count |-> 25, recency_days |-> 90,
   dedupe_policy |-> "prefer_new"]

\* No orchestrator invocation yet.
NoPipeline ==
  [pc |-> "idle", profile |-> "none", clock |-> 0,
   targets |-> DefaultTargets, retries |-> 0, parsed_any |-> FALSE,
   parsed_signals |-> <<>>, report |-> NoReport, scored |-> NoReport,
   db0 |-> EmptyDb]

Requests == 1..MaxRequests

NoRequest == [pc |-> "new", targets |-> 0, failed_runs |-> 0]

\* _pipeline_state at import, and no request received.
\* last_run_at is 0 for None and else the number of streams that had ended
\* when it was set, standing for the time of that moment.
NoServer ==
  [running |-> FALSE, last_status |-> "idle", last_run_at |-> 0,
   reqs |-> [r \in Requests |-> NoRequest]]

\* No function is being called on its own.
NoCall == [fn |-> "none", args |-> <<>>, calls |-> 0, out |-> <<>>]

Init ==
  /\ db = EmptyDb
  /\ conn = NoConn
  /\ last = NoLast
  /\ rd = "idle"
  /\ result = NoResult
  /\ pl = NoPipeline
  /\ srv = NoServer
  /\ call = NoCall

\* What the connection of the pass in flight reads.
View == IF conn.locked THEN conn.work ELSE db

ScoutReports ==
  [name : Files, timestamp : {ScoutTimestamp}, queries_used : {39},
   profile_file : {NULL}, signals : SeqsUpTo(ScoutPool, MaxReportLen)]

ScoredReports ==
  [name : Files, timestamp : {ScoredTimestamp}, queries_used : {0},
   profile_file : {NULL}, signals : SeqsUpTo(ScoredPool, MaxReportLen)]

(***************************************************************************)
(* write_scout_run.  Begin: init_db (committed on its own), then the       *)
(* INSERT of the run row opens the transaction.                            *)
(***************************************************************************)
WriteScoutBegin(rep) ==
  /\ conn.op = "none"
  /\ db.seq.scout_runs < MaxRuns
  /\ db.seq.signals + Len(rep.signals) <= MaxSignals
  /\ LET d == init_db(db)
         w == InsertRun(d, rep.timestamp, rep.queries_used, Len(rep.signals),
                        rep.name, rep.profile_file)
     IN  /\ db' = d
         /\ conn' = [NoConn EXCEPT !.op = "write_scout_run", !.locked = TRUE,
                                   !.work = w, !.report = rep,
                                   !.todo = rep.signals,
                                   !.run_id = w.seq.scout_runs,
                                   !.pre = db]
  /\ last' = NoLast
  /\ result' = NoResult
  /\ UNCHANGED <<rd, pl, srv, call>>

WriteScoutStep ==
  /\ conn.op = "write_scout_run"
  /\ conn.todo # <<>>
  /\ Head(conn.todo).wellformed
  /\ conn' = [conn EXCEPT
                !.work = InsertScoutSignal(@, conn.run_id, Head(conn.todo)),
                !.todo = Tail(@)]
  /\ result' = NoResult
  /\ UNCHANGED <<db, last, rd, pl, srv, call>>

(***************************************************************************)
(* write_scored_run.  Begin: init_db, the lookup of the run by output_file *)
(* and, when there is none, the INSERT of the placeholder run.  rep.name   *)
(* is the report's source_report.                                          *)
(***************************************************************************)
WriteScoredBegin(rep) ==
  /\ conn.op = "none"
  /\ db.seq.signals + Len(rep.signals) <= MaxSignals
  /\ LET d == init_db(db)
         found == RunsByOutputFile(d, rep.name)
         w == InsertRun(d, rep.timestamp, 0, Len(rep.signals), rep.name, NULL)
     IN  /\ found = {} => db.seq.scout_runs < MaxRuns
         /\ db' = d
         /\ conn' = [NoConn EXCEPT
                       !.op = "write_scored_run",
                       !.locked = (found = {}),
                       !.work = IF found = {} THEN w ELSE EmptyDb,
                       !.report = rep,
                       !.todo = rep.signals,
                       !.run_id = IF found = {} THEN w.seq.scout_runs
                                  ELSE MinId(found),
                       !.had_run = (\E r \in db.scout_runs : r.output_file = rep.name),
                       !.repeat = (/\ last.op = "write_scored_run"
                                   /\ last.outcome = "commit"
                                   /\ last.alone
                                   /\ last.report = rep),
                       !.pre = db]
  /\ last' = NoLast
  /\ result' = NoResult
  /\ UNCHANGED <<rd, pl, srv, call>>

\* The INSERT branch of the loop raises IntegrityError when the run row is gone.
ScoredStepRaises(sig) ==
  \/ ~sig.wellformed
  \/ /\ { r \in View.signals : MatchesExisting(r, conn.run_id, sig) } = {}
     /\ ~ForeignKeyOk(View, conn.run_id)

WriteScoredStep ==
  /\ conn.op = "write_scored_run"
  /\ conn.todo # <<>>
  /\ ~ScoredStepRaises(Head(conn.todo))
  /\ conn' = [conn EXCEPT
                !.work = UpsertScoredSignal(View, conn.run_id, Head(conn.todo),
                                            conn.report.timestamp),
                !.locked = TRUE,
                !.todo = Tail(@)]
  /\ result' = NoResult
  /\ UNCHANGED <<db, last, rd, pl, srv, call>>

(***************************************************************************)
(* The end of a pass: conn.commit() after the loop, or the exception that  *)
(* leaves the "with conn" block, which rolls the transaction back.         *)
(***************************************************************************)
Finished(outcome) ==
  [op |-> conn.op, outcome |-> outcome, report |-> conn.report,
   had_run |-> conn.had_run, repeat |-> conn.repeat, alone |-> conn.alone,
   pre_runs |-> conn.pre.scout_runs,
   pre_count |-> Cardinality(conn.pre.signals),
   pre |-> IF outcome = "failed" THEN conn.pre ELSE EmptyDb]

Committed(c, d) == IF c.locked THEN c.work ELSE d

\* A connection that keeps its writes when the pass raises.
RolledBack_KeepsWork(c, d) == IF c.locked THEN c.work ELSE d

RolledBack(c, d) == d

WriteCommit ==
  /\ conn.op # "none"
  /\ conn.todo = <<>>
  /\ db' = Committed(conn, db)
  /\ last' = Finished("commit")
  /\ conn' = NoConn
  /\ result' = NoResult
  /\ UNCHANGED <<rd, pl, srv, call>>

WriteFail ==
  /\ conn.op # "none"
  /\ conn.todo # <<>>
  /\ IF conn.op = "write_scored_run"
     THEN ScoredStepRaises(Head(conn.todo))
     ELSE ~Head(conn.todo).wellformed
  /\ db' = RolledBack(conn, db)
  /\ last' = Finished("failed")
  /\ conn' = NoConn
  /\ result' = NoResult
  /\ UNCHANGED <<rd, pl, srv, call>>

(***************************************************************************)
(* Operations of other connections.  Each starts with init_db, whose       *)
(* UPDATE needs the write lock; conn.pre follows them, so that it stays    *)
(* the database as it would be without the pass in flight.                 *)
(***************************************************************************)
DeleteBatch(run_id) ==
  /\ ~conn.locked
  /\ db' = delete_batch(init_db(db), run_id)
  /\ conn' = IF conn.op = "none" THEN conn
             ELSE [conn EXCEPT !.pre = delete_batch(init_db(@), run_id),
                               !.alone = FALSE]
  /\ last' = NoLast
  /\ result' = NoResult
  /\ UNCHANGED <<rd, pl, srv, call>>

DeleteRunsByIds(run_ids) ==
  /\ ~conn.locked
  /\ db' = delete_runs_by_ids(init_db(db), run_ids)
  /\ conn' = IF conn.op = "none" THEN conn
             ELSE [conn EXCEPT !.pre = delete_runs_by_ids(init_db(@), run_ids),
                               !.alone = FALSE]
  /\ last' = NoLast
  /\ result' = NoResult
  /\ UNCHANGED <<rd, pl, srv, call>>

Reads == {"get_summary", "get_latest_run", "get_existing_fingerprints"}

\* The init_db call that opens every read operation.
ReadInit ==
  /\ rd = "idle"
  /\ ~conn.locked
  /\ rd' = "open"
  /\ db' = init_db(db)
  /\ conn' = IF conn.op = "none" THEN conn
             ELSE [conn EXCEPT !.pre = init_db(@)]
  /\ result' = NoResult
  /\ UNCHANGED <<last, pl, srv, call>>

\* The SELECTs of the read operation, on the committed database.
ReadSelect(op) ==
  /\ rd = "open"
  /\ rd' = "idle"
  /\ result' = [op |-> op,
                summary |-> IF op = "get_summary" THEN get_summary(db)
                            ELSE NoSummary,
                ids |-> IF op = "get_latest_run" THEN get_latest_run(db)
                        ELSE {},
                fps |-> IF op = "get_existing_fingerprints"
                        THEN get_existing_fingerprints(db) ELSE {}]
  /\ UNCHANGED <<db, conn, last, pl, srv, call>>

Next ==
  \/ \E rep \in ScoutReports : WriteScoutBegin(rep)
  \/ WriteScoutStep
  \/ \E rep \in ScoredReports : WriteScoredBegin(rep)
  \/ WriteScoredStep
  \/ WriteCommit
  \/ WriteFail
  \/ \E run_id \in 1..MaxRuns : DeleteBatch(run_id)
  \/ \E run_ids \in SUBSET (1..MaxRuns) : DeleteRunsByIds(run_ids)
  \/ ReadInit
  \/ \E op \in Reads : ReadSelect(op)

Spec == Init /\ [][Next]_vars

(***************************************************************************)
(* The write passes as functions of the database, for a caller that runs   *)
(* them one after the other with no other connection in between: the same  *)
(* statements as the step actions above, folded over the report.           *)
(***************************************************************************)
RECURSIVE InsertScoutSignals(_, _, _)
InsertScoutSignals(d, run_id, sigs) ==
  IF sigs = <<>> THEN d
  ELSE InsertScoutSignals(InsertScoutSignal(d, run_id, Head(sigs)),
                          run_id, Tail(sigs))

RECURSIVE UpsertScoredSignals(_, _, _, _)
UpsertScoredSignals(d, run_id, sigs, scored_at) ==
  IF sigs = <<>> THEN d
  ELSE UpsertScoredSignals(
         UpsertScoredSignal(d, run_id, Head(sigs), scored_at),
         run_id, Tail(sigs), scored_at)

AllWellformed(sigs) == \A i \in DOMAIN sigs : sigs[i].wellformed

write_scout_run(d, rep) ==
  LET d0 == init_db(d)
      w == InsertRun(d0, rep.timestamp, rep.queries_used, Len(rep.signals),
                     rep.name, rep.profile_file)
  IN  IF AllWellformed(rep.signals)
      THEN InsertScoutSignals(w, w.seq.scout_runs, rep.signals)
      ELSE d0

write_scored_run(d, rep) ==
  LET d0 == init_db(d)
      found == RunsByOutputFile(d0, rep.name)
      w == IF found = {}
           THEN InsertRun(d0, rep.timestamp, 0, Len(rep.signals), rep.name,
                          NULL)
           ELSE d0
      run_id == IF found = {} THEN w.seq.scout_runs ELSE MinId(found)
  IN  IF AllWellformed(rep.signals)
      THEN UpsertScoredSignals(w, run_id, rep.signals, rep.timestamp)
      ELSE d0

(***************************************************************************)
(* One orchestrator invocation (full pipeline) after another.  The scout   *)
(* and the scorer are subprocesses; what the search and the LLM return is  *)
(* the environment's choice.                                               *)
(***************************************************************************)
\* The URLs of the search results (run_searches).
SearchUrls == {"u1", "u2"}

Initech == [Base EXCEPT !.institution = "initech", !.source_url = "u2"]
Unverified == [Base EXCEPT !.institution = "hooli", !.source_url = "u9"]
Globex == [Base EXCEPT !.institution = "globex", !.source_url = "u7"]

\* What the scout's analyst agent can return: text that json.loads rejects,
\* or a JSON list of records.
AgentPool == {Base, Initech, Unverified}

AgentOutputs ==
  {[parsable |-> FALSE, signals |-> <<>>]}
    \cup [parsable : {TRUE}, signals : SeqsUpTo(AgentPool, MaxReportLen)]

\* What the scorer's agent can return.
ScorerPool == {WithScore(Base, ScoreHot), WithScore(Globex, ScoreWarm)}

ScorerOutputs ==
  {[parsable |-> FALSE, signals |-> <<>>]}
    \cup [parsable : {TRUE}, signals : SeqsUpTo(ScorerPool, MaxReportLen)]

\* The profile file named on the command line: none, a path that does not
\* exist, a file that load_profile accepts, a file that it rejects.
ProfileInputs == {"none", "missing", "valid", "invalid"}

\* target_output and time_window_days of the valid profile.
ValidProfileTargets ==
  [min_count |-> 1, max_count |-> 2, recency_days |-> 30,
   dedupe_policy |-> "exclude_seen"]

\* The scout's profile loading: a profile that fails to load is dropped
\* with a warning and the run goes on with profile = None.
resolve_profile_targets(profile) ==
  IF profile = "valid" THEN ValidProfileTargets ELSE DefaultTargets

\* parse_signals_from_agent_text inside the scout's try / except.
ParsedOrEmpty(out) == IF out.parsable THEN out.signals ELSE <<>>

\* The records of sigs at the positions in keep, in their order.
Kept(sigs, keep) ==
  LET F[i \in 0..Len(sigs)] ==
        IF i = 0 THEN <<>>
        ELSE IF i \in keep THEN Append(F[i-1], sigs[i]) ELSE F[i-1]
  IN  F[Len(sigs)]

\* A validation that keeps every record.
validate_signals_KeepsAll(signals, valid_urls) == signals

validate_signals(signals, valid_urls) ==
  Kept(signals, { i \in DOMAIN signals : signals[i].source_url \in valid_urls })

\* A slice that ignores its length.
Take_All(sigs, n) == sigs

\* sigs[:n]; a negative n counts from the end.
Take(sigs, n) ==
  IF n >= 0 THEN SubSeq(sigs, 1, IF n < Len(sigs) THEN n ELSE Len(sigs))
  ELSE SubSeq(sigs, 1, Len(sigs) + n)

\* exclude_seen and prefer_new: the unseen records, backfilled with seen
\* ones up to min_count; allow_seen: unseen then seen.  A fingerprint that
\* came earlier in the batch is dropped.
\* A loop that never drops a record for its fingerprint.
batch_first_All(signals) == DOMAIN signals

\* The positions that pass "if fp in batch_fps: continue".
batch_first(signals) ==
  { i \in DOMAIN signals :
      \A j \in 1..(i-1) :
        signal_fingerprint(signals[j]) # signal_fingerprint(signals[i]) }

unseen(signals, existing_fps) ==
  Kept(signals, { i \in batch_first(signals) :
                    signal_fingerprint(signals[i]) \notin existing_fps })

seen(signals, existing_fps) ==
  Kept(signals, { i \in batch_first(signals) :
                    signal_fingerprint(signals[i]) \in existing_fps })

apply_dedupe_policy(signals, dedupe_policy, min_count, existing_fps) ==
  LET u == unseen(signals, existing_fps)
      s == seen(signals, existing_fps)
      policy == Lower(Trim(IF Truthy(dedupe_policy) THEN dedupe_policy
                           ELSE "prefer_new"))
  IN  IF policy = "allow_seen" THEN u \o s
      ELSE IF Len(u) < min_count
           THEN u \o Take(s, min_count - Len(u))
           ELSE u

PipelineFrame == UNCHANGED <<conn, last, rd, result, srv, call>>

\* orchestrator.main: the profile path must exist, nothing else is checked;
\* then run_scout starts the scout, which loads the profile.
Invoke(profile) ==
  /\ pl.pc \in {"idle", "done", "exit1"}
  /\ pl.clock < MaxRuns
  /\ pl' = IF profile = "missing"
           THEN [NoPipeline EXCEPT !.pc = "exit1", !.profile = profile,
                                   !.clock = pl.clock]
           ELSE [NoPipeline EXCEPT
                   !.pc = "scout", !.profile = profile,
                   !.clock = pl.clock,
                   !.targets = resolve_profile_targets(profile),
                   !.db0 = db]
  /\ UNCHANGED db
  /\ PipelineFrame

\* The scout's first crew.kickoff() and the parse of its output.
ScoutAnalyse(out) ==
  /\ pl.pc = "scout"
  /\ pl' = [pl EXCEPT !.pc = "retry", !.parsed_any = out.parsable,
                      !.parsed_signals = ParsedOrEmpty(out)]
  /\ UNCHANGED db
  /\ PipelineFrame

\* One round of the retry loop: taken while fewer than min_count records
\* were parsed, at most twice; a longer result replaces the shorter one.
ScoutRetry(out) ==
  /\ pl.pc = "retry"
  /\ pl.retries < 2
  /\ Len(pl.parsed_signals) < pl.targets.min_count
  /\ pl' = [pl EXCEPT
              !.retries = @ + 1,
              !.parsed_any = @ \/ out.parsable,
              !.parsed_signals =
                 IF Len(ParsedOrEmpty(out)) > Len(@)
                 THEN ParsedOrEmpty(out) ELSE @]
  /\ UNCHANGED db
  /\ PipelineFrame

\* The filters and the report file.  Of the cascade, the steps that can
\* drop a record of AgentPool: validate_signals, apply_dedupe_policy (whose
\* get_existing_fingerprints calls init_db) and the max_count cut of
\* enforce_output_window (its sort is stable and all dates here are equal).
\* The name and tier filters keep every record of AgentPool, its dates are
\* inside the time window, and rebalance_ai_focus and enrich_geo_fields
\* rewrite domain, country and region only.
ScoutWriteReport ==
  /\ pl.pc = "retry"
  /\ pl.retries = 2 \/ Len(pl.parsed_signals) >= pl.targets.min_count
  /\ LET d == init_db(db)
         validated == validate_signals(pl.parsed_signals, SearchUrls)
         selected == apply_dedupe_policy(validated, pl.targets.dedupe_policy,
                       pl.targets.min_count, get_existing_fingerprints(d))
         trimmed == Take(selected, pl.targets.max_count)
     IN  /\ db' = d
         /\ pl' = [pl EXCEPT
                     !.pc = "persist_scout",
                     !.clock = @ + 1,
                     !.report =
                        [name |-> ReportName(pl.clock + 1),
                         timestamp |-> ScoutTimestamp,
                         queries_used |-> 39,
                         profile_file |->
                            IF pl.profile = "none" THEN NULL
                            ELSE "profile.json",
                         signals |-> trimmed]]
  /\ PipelineFrame

\* A subprocess that ends with a non-zero exit code: run_scout / run_scorer
\* return None and main exits with 1.
SubprocessFails ==
  /\ pl.pc \in {"scout", "retry", "scorer"}
  /\ pl' = [pl EXCEPT !.pc = "exit1"]
  /\ UNCHANGED db
  /\ PipelineFrame

\* main: database.write_scout_run(scout_output, profile_file, profile_json)
PersistScout ==
  /\ pl.pc = "persist_scout"
  /\ db' = write_scout_run(db, pl.report)
  /\ pl' = [pl EXCEPT !.pc = "scorer"]
  /\ PipelineFrame

\* The scorer: it sends the report's signals, or when there are none the
\* raw-text fallback prompt, to its agent and keeps every record of the
\* answer; rescore_signal then rewrites score fields only.
ScorerRun(out) ==
  /\ pl.pc = "scorer"
  /\ pl' = [pl EXCEPT
              !.pc = "persist_scored",
              !.scored = [name |-> pl.report.name,
                          timestamp |-> ScoredTimestamp,
                          queries_used |-> 0, profile_file |-> NULL,
                          signals |-> ParsedOrEmpty(out)]]
  /\ UNCHANGED db
  /\ PipelineFrame

\* main: database.write_scored_run(scored_output)
PersistScored ==
  /\ pl.pc = "persist_scored"
  /\ db' = write_scored_run(db, pl.scored)
  /\ pl' = [pl EXCEPT !.pc = "done"]
  /\ PipelineFrame

PipelineNext ==
  \/ \E profile \in ProfileInputs : Invoke(profile)
  \/ \E out \in AgentOutputs : ScoutAnalyse(out)
  \/ \E out \in AgentOutputs : ScoutRetry(out)
  \/ ScoutWriteReport
  \/ SubprocessFails
  \/ PersistScout
  \/ \E out \in ScorerOutputs : ScorerRun(out)
  \/ PersistScored

PipelineSpec == Init /\ [][PipelineNext]_vars

(***************************************************************************)
(* POST /api/run-pipeline.  The handler runs to its return without an      *)
(* await; the body of event_stream() starts only when the response is      *)
(* iterated, and suspends at every yield and await.                        *)
(***************************************************************************)
ServerFrame == UNCHANGED <<db, conn, last, rd, result, pl, call>>

\* run_pipeline up to "return StreamingResponse(...)".
ReceiveRequest(r, targets) ==
  /\ srv.reqs[r].pc = "new"
  /\ srv' = [srv EXCEPT
               !.reqs[r] = IF srv.running
                           THEN [@ EXCEPT !.pc = "refused"]
                           ELSE [@ EXCEPT !.pc = "accepted",
                                          !.targets = targets]]
  /\ ServerFrame

\* event_stream up to its first suspension.
StreamStart(r) ==
  /\ srv.reqs[r].pc = "accepted"
  /\ srv' = [srv EXCEPT !.running = TRUE, !.last_status = "running",
                        !.reqs[r].pc = "streaming"]
  /\ ServerFrame

\* asyncio.create_subprocess_exec for the next run target.
SpawnOrchestrator(r) ==
  /\ srv.reqs[r].pc = "streaming"
  /\ srv.reqs[r].targets > 0
  /\ srv' = [srv EXCEPT !.reqs[r].pc = "subprocess"]
  /\ ServerFrame

\* proc.wait() returns.
OrchestratorExits(r, returncode) ==
  /\ srv.reqs[r].pc = "subprocess"
  /\ srv' = [srv EXCEPT
               !.reqs[r].pc = "streaming",
               !.reqs[r].targets = @ - 1,
               !.reqs[r].failed_runs =
                  IF returncode # 0 THEN @ + 1 ELSE @]
  /\ ServerFrame

\* datetime.now() in the finally block.
NowAtEnd ==
  1 + Cardinality({ q \in Requests : srv.reqs[q].pc \in {"finished", "raised"} })

\* After the loop: last_status, then the finally block.
StreamEnd(r) ==
  /\ srv.reqs[r].pc = "streaming"
  /\ srv.reqs[r].targets = 0
  /\ srv' = [srv EXCEPT
               !.running = FALSE,
               !.last_status = IF srv.reqs[r].failed_runs = 0
                               THEN "done" ELSE "error",
               !.last_run_at = NowAtEnd,
               !.reqs[r].pc = "finished"]
  /\ ServerFrame

\* An exception inside the loop: create_subprocess_exec raises OSError, or
\* the stream is cancelled at a yield or at the read of the subprocess's
\* output when the client goes away.  The try has no except clause: only
\* the finally block runs.
StreamRaises(r) ==
  /\ \/ srv.reqs[r].pc = "streaming" /\ srv.reqs[r].targets > 0
     \/ srv.reqs[r].pc = "subprocess"
  /\ srv' = [srv EXCEPT
               !.running = FALSE,
               !.last_run_at = NowAtEnd,
               !.reqs[r].pc = "raised"]
  /\ ServerFrame

ServerNext ==
  \/ \E r \in Requests : \E targets \in 1..MaxTargets :
       ReceiveRequest(r, targets)
  \/ \E r \in Requests : StreamStart(r)
  \/ \E r \in Requests : SpawnOrchestrator(r)
  \/ \E r \in Requests : \E returncode \in {0, 1} :
       OrchestratorExits(r, returncode)
  \/ \E r \in Requests : StreamEnd(r)
  \/ \E r \in Requests : StreamRaises(r)

ServerSpec == Init /\ [][ServerNext]_vars

\* The event loop resumes a stream that can go on, as long as the client
\* reads it, and every subprocess ends, by exiting or by an exception in
\* the stream that waits for it.
StreamFairness ==
  \A r \in Requests :
    /\ WF_vars(StreamStart(r))
    /\ WF_vars(SpawnOrchestrator(r) \/ StreamRaises(r))
    /\ WF_vars((\E returncode \in {0, 1} : OrchestratorExits(r, returncode))
                 \/ StreamRaises(r))
    /\ WF_vars(StreamEnd(r))

ServerLiveSpec == ServerSpec /\ StreamFairness


(***************************************************************************)
(* Properties of the Run Store (specification Spec).                       *)
(***************************************************************************)
RunsNamed(d, F) == { r \in d.scout_runs : r.output_file = F }

\* Equality on the four identity fields, NULL treated as blank in each.
BlankSafeEqual(row, sig) ==
  /\ Coalesce(row.institution) = Coalesce(sig.institution)
  /\ Coalesce(row.signal_type) = Coalesce(sig.signal_type)
  /\ Coalesce(row.signal_date) = Coalesce(sig.signal_date)
  /\ Coalesce(row.source_url) = Coalesce(sig.source_url)

ScoreColumns ==
  {"total_score", "priority_tier", "action_pts", "seniority_pts",
   "domain_pts", "accessibility_pts", "recency_pts", "seniority_inferred",
   "scored_at"}

SameExceptScores(r1, r2) ==
  \A k \in DOMAIN r1 : k \notin ScoreColumns => r1[k] = r2[k]

\* C1: write_scored_run applied a second time with the identical report
\* leaves the number of run rows and of record rows as the first application
\* left them, whatever the records' identity fields hold.
C1_Idempotent ==
  (last.op = "write_scored_run" /\ last.outcome = "commit" /\ last.repeat
   /\ last.alone)
    => /\ db.scout_runs = last.pre_runs
       /\ Cardinality(db.signals) = last.pre_count

\* C2: a scored record for which the located run holds a row equal on the
\* four identity fields (NULL equal to blank) inserts no row and changes only
\* the score columns of one such row; a row is inserted only when there is
\* no such row.
C2_UpsertByIdentity ==
  [][ (conn.op = "write_scored_run" /\ conn'.op = "write_scored_run"
       /\ Len(conn'.todo) < Len(conn.todo))
      => LET sig == Head(conn.todo)
             before == View.signals
             after == conn'.work.signals
             held == { r \in before :
                         r.run_id = conn.run_id /\ BlankSafeEqual(r, sig) }
         IN  IF held # {}
             THEN \E r \in held :
                    \E r2 \in after :
                      /\ after = (before \ {r}) \cup {r2}
                      /\ SameExceptScores(r, r2)
             ELSE Cardinality(after) = Cardinality(before) + 1 ]_vars

\* C3: the store never holds two run rows with the same output_file.
C3_OneRunPerReport ==
  \A F \in Files : Cardinality(RunsNamed(db, F)) <= 1

\* C4: a scored report naming no stored run creates exactly one placeholder
\* run (output_file = source_report, queries_used = 0), every record of the
\* report is stored under it, and the pass fails only on an element that is
\* not a record; a report naming a stored run creates no run row.
C4_Placeholder ==
  /\ (last.op = "write_scored_run" /\ last.outcome = "commit")
       => IF last.had_run
          THEN db.scout_runs = last.pre_runs
          ELSE \E run \in db.scout_runs \ last.pre_runs :
                 /\ db.scout_runs = last.pre_runs \cup {run}
                 /\ run.output_file = last.report.name
                 /\ run.queries_used = 0
                 /\ \A i \in DOMAIN last.report.signals :
                      \E row \in db.signals :
                        /\ row.run_id = run.id
                        /\ BlankSafeEqual(row, last.report.signals[i])
  /\ (last.op = "write_scored_run" /\ last.outcome = "failed"
      /\ ~last.had_run)
       => \E i \in DOMAIN last.report.signals :
            ~last.report.signals[i].wellformed

C4_Witness ==
  /\ last.op = "write_scored_run" /\ last.outcome = "commit"
  /\ ~last.had_run
  /\ last.pre_runs # {}
  /\ Len(last.report.signals) = 2

ReadOf(op, d) ==
  [op |-> op,
   summary |-> IF op = "get_summary" THEN get_summary(d) ELSE NoSummary,
   ids |-> IF op = "get_latest_run" THEN get_latest_run(d) ELSE {},
   fps |-> IF op = "get_existing_fingerprints"
           THEN get_existing_fingerprints(d) ELSE {}]

C5_NoFabrication ==
  pl.pc \in {"persist_scored", "done"} =>
    LET F == pl.report
        known(x) == \E j \in DOMAIN F.signals : BlankSafeEqual(x, F.signals[j])
    IN  /\ \A i \in DOMAIN pl.scored.signals : known(pl.scored.signals[i])
        /\ \A run \in RunsNamed(db, F.name) :
             \A row \in db.signals : row.run_id = run.id => known(row)
        /\ F.signals = <<>> => pl.scored.signals = <<>>

\* C7: an invocation whose profile fails validation writes no run row and
\* no record row: the store stays as it was when the invocation began.
C7_InvalidProfileHalts ==
  pl.profile = "invalid" => db = pl.db0

\* C8: when no output of the extraction agent could be parsed, the
\* invocation writes nothing to the store and its scoring pass adds no
\* record.
C8_UnparsableHalts ==
  (pl.report # NoReport /\ ~pl.parsed_any /\ pl.profile # "invalid")
    => /\ db = pl.db0
       /\ pl.scored.signals = <<>>

(***************************************************************************)
(* Properties of the run-pipeline endpoint (specification ServerSpec).     *)
(***************************************************************************)
ActiveRequests ==
  { r \in Requests : srv.reqs[r].pc \in {"accepted", "streaming", "subprocess"} }

\* C9: at most one request is accepted and unfinished at any time, and at
\* most one orchestrator subprocess is alive.
C9_OneActiveRun ==
  /\ Cardinality(ActiveRequests) <= 1
  /\ Cardinality({ r \in Requests : srv.reqs[r].pc = "subprocess" }) <= 1

(***************************************************************************)
(* Purges (specification Spec).                                            *)
(***************************************************************************)
Ids(rows) == { r.id : r \in rows }

Purge ==
  \/ \E run_id \in 1..MaxRuns : DeleteBatch(run_id)
  \/ \E run_ids \in SUBSET (1..MaxRuns) : DeleteRunsByIds(run_ids)

\* C11: in every step of the store, every committed record belongs to a
\* committed run afterwards; the records that disappear in the step are
\* exactly the records of the runs that disappear in it, and a step in which
\* a record or a run disappears is a delete_batch or a delete_runs_by_ids.
C11_PurgeOnly ==
  [][LET gone == Ids(db.signals) \ Ids(db'.signals)
         goneRuns == Ids(db.scout_runs) \ Ids(db'.scout_runs)
     IN  /\ \A s \in db'.signals : ForeignKeyOk(db', s.run_id)
         /\ gone = { s.id : s \in { t \in db.signals : t.run_id \in goneRuns } }
         /\ (gone # {} \/ goneRuns # {}) => Purge]_vars

\* A purge has removed one run with its record and left the other run's.
C11_Witness ==
  /\ db.seq.scout_runs = 2 /\ db.seq.signals = 2
  /\ Cardinality(db.scout_runs) = 1 /\ Cardinality(db.signals) = 1
  /\ \A s \in db.signals : ForeignKeyOk(db, s.run_id)

(***************************************************************************)
(* signal_fingerprint on its own (specification FingerprintSpec): the      *)
(* record is drawn from FingerprintInputs, spellings of one identity in    *)
(* other letter case and with surrounding blanks, with and without scores  *)
(* and with the URL present, blank and absent.                             *)
(***************************************************************************)
FingerprintInputs ==
  { WithScore([Base EXCEPT !.institution = i, !.signal_type = t,
                            !.signal_date = d, !.source_url = u], sc) :
      i \in {"acme", "ACME", " Acme ", NULL, BLANK},
      t \in {"hire", " HIRE"},
      d \in {"2025-01", "2025-01 ", ""},
      u \in {"u1", " U1 ", NULL, "", BLANK},
      sc \in {[total_score |-> NULLI, priority_tier |-> NULL,
               score_breakdown |-> NoBreakdown], ScoreHot} }

FingerprintInit ==
  /\ db = EmptyDb /\ conn = NoConn /\ last = NoLast /\ rd = "idle"
  /\ result = NoResult /\ pl = NoPipeline /\ srv = NoServer
  /\ \E sig \in FingerprintInputs :
       call = [fn |-> "signal_fingerprint", args |-> sig, calls |-> 0,
               out |-> <<>>]

MaxCalls == 2

CallFingerprint ==
  /\ call.fn = "signal_fingerprint"
  /\ call.calls < MaxCalls
  /\ call' = [call EXCEPT !.calls = @ + 1,
                          !.out = signal_fingerprint(call.args)]
  /\ UNCHANGED <<db, conn, last, rd, result, pl, srv>>

FingerprintNext == CallFingerprint

FingerprintSpec == FingerprintInit /\ [][FingerprintNext]_vars

\* The spellings of each text of FingerprintInputs, with the text they all
\* stand for once trimmed and lowercased.
Spellings ==
  { [canon |-> "acme", forms |-> {"acme", "ACME", " Acme "}],
    [canon |-> "hire", forms |-> {"hire", " HIRE"}],
    [canon |-> "2025-01", forms |-> {"2025-01", "2025-01 "}],
    [canon |-> "u1", forms |-> {"u1", " U1 "}],
    [canon |-> "", forms |-> {"", BLANK}] }

CanonOf(x) ==
  IF x = NULL THEN ""
  ELSE (CHOOSE c \in Spellings : x \in c.forms).canon

\* a and b differ at most in letter case and surrounding whitespace.
SameSpelling(a, b) ==
  IF a = NULL \/ b = NULL THEN a = b
  ELSE \E c \in Spellings : a \in c.forms /\ b \in c.forms

SameIdentitySpelling(r1, r2) ==
  /\ SameSpelling(r1.institution, r2.institution)
  /\ SameSpelling(r1.signal_type, r2.signal_type)
  /\ SameSpelling(r1.signal_date, r2.signal_date)
  /\ SameSpelling(r1.source_url, r2.source_url)

\* C12: the fingerprint returned for a record is the url form on the
\* normalized source_url when that is present and non-blank and the triple
\* form on the normalized institution, signal_type and signal_date
\* otherwise; every record that differs from it only in letter case,
\* surrounding whitespace or score fields has the same fingerprint, and a
\* second call returns what the first returned.
C12_Fingerprint ==
  (call.fn = "signal_fingerprint" /\ call.calls >= 1) =>
    LET r == call.args
    IN  /\ call.out =
             IF r.source_url \notin {NULL, "", BLANK}
             THEN <<"url", CanonOf(r.source_url)>>
             ELSE <<"triple", CanonOf(r.institution), CanonOf(r.signal_type),
                    CanonOf(r.signal_date)>>
        /\ \A r2 \in FingerprintInputs :
             SameIdentitySpelling(r, r2) => signal_fingerprint(r2) = call.out

\* A record in capitals, padded, scored and without URL has been
\* fingerprinted twice.
C12_Witness ==
  /\ call.fn = "signal_fingerprint" /\ call.calls = 2
  /\ call.args.institution = " Acme " /\ call.args.signal_type = " HIRE"
  /\ call.args.source_url = BLANK /\ call.args.total_score = 85
  /\ call.out = <<"triple", "acme", "hire", "2025-01">>

(***************************************************************************)
(* The fingerprint index and the partition of a later batch                *)
(* (specification Spec).                                                   *)
(***************************************************************************)
DedupePool ==
  { Base, [Base EXCEPT !.institution = NULL], Initech,
    [Base EXCEPT !.source_url = NULL], [Initech EXCEPT !.source_url = BLANK] }

DedupeBatches == SeqsUpTo(DedupePool, MaxReportLen)

Records(sigs) == { sigs[i] : i \in DOMAIN sigs }

\* The stored row holds the identity fields of the record as given.
SameIdentity(row, sig) ==
  /\ row.institution = sig.institution
  /\ row.signal_type = sig.signal_type
  /\ row.signal_date = sig.signal_date
  /\ row.source_url = sig.source_url

\* C13: what get_existing_fingerprints returns is the set of the
\* fingerprints of all committed records, of every run; in a batch
\* partitioned against it, a record (the first of its fingerprint in the
\* batch) that a stored row holds is in seen and not in unseen, and one whose
\* fingerprint is that of no stored row is in unseen and not in seen.
C13_SeenAcrossRuns ==
  (result.op = "get_existing_fingerprints") =>
    /\ result.fps = { signal_fingerprint(r) : r \in db.signals }
    /\ \A batch \in DedupeBatches :
         LET s == Records(seen(batch, result.fps))
             u == Records(unseen(batch, result.fps))
         IN  \A i \in batch_first(batch) :
               /\ (\E r \in db.signals : SameIdentity(r, batch[i]))
                    => (batch[i] \in s /\ batch[i] \notin u)
               /\ (\A r \in db.signals :
                      signal_fingerprint(r) # signal_fingerprint(batch[i]))
                    => (batch[i] \in u /\ batch[i] \notin s)

\* The index has been read while the only stored record is one of an
\* earlier run than the latest.
C13_Witness ==
  /\ result.op = "get_existing_fingerprints"
  /\ Cardinality(db.scout_runs) = 2
  /\ db.signals # {}
  /\ \A r \in db.signals : r.run_id # LatestRunId(db) /\ SameIdentity(r, Base)
  /\ result.fps = {signal_fingerprint(Base)}

(***************************************************************************)
(* apply_dedupe_policy on its own (specification DedupeSpec): the batch,   *)
(* the policy, min_count and the fingerprints already stored are drawn     *)
(* from bounded sets.                                                      *)
(***************************************************************************)
MaxMinCount == 2

DedupePolicies == {"exclude_seen", "allow_seen", "prefer_new", ""}

DedupeInputs ==
  [signals : DedupeBatches, dedupe_policy : DedupePolicies,
   min_count : (-1)..MaxMinCount,
   existing_fps : SUBSET { signal_fingerprint(r) : r \in DedupePool }]

DedupeInit ==
  /\ db = EmptyDb /\ conn = NoConn /\ last = NoLast /\ rd = "idle"
  /\ result = NoResult /\ pl = NoPipeline /\ srv = NoServer
  /\ \E a \in DedupeInputs :
       call = [fn |-> "apply_dedupe_policy", args |-> a, calls |-> 0,
               out |-> <<>>]

CallDedupe ==
  /\ call.fn = "apply_dedupe_policy"
  /\ call.calls = 0
  /\ call' = [call EXCEPT
                !.calls = 1,
                !.out = apply_dedupe_policy(call.args.signals,
                                            call.args.dedupe_policy,
                                            call.args.min_count,
                                            call.args.existing_fps)]
  /\ UNCHANGED <<db, conn, last, rd, result, pl, srv>>

DedupeNext == CallDedupe

DedupeSpec == DedupeInit /\ [][DedupeNext]_vars

DedupeDone == call.fn = "apply_dedupe_policy" /\ call.calls = 1

\* The fingerprints of the batch that are not stored yet.
UnseenFps(a) ==
  { signal_fingerprint(a.signals[i]) : i \in DOMAIN a.signals } \ a.existing_fps

Max0(n) == IF n > 0 THEN n ELSE 0

\* C14: under exclude_seen the result is one record for each unseen
\* fingerprint of the batch, then seen records only, at most
\* max(0, min_count - len(unseen)) of them: none when there are min_count
\* unseen records or more, and never so many that the result is longer than
\* min_count.
C14_ExcludeSeenBackfill ==
  (DedupeDone /\ call.args.dedupe_policy = "exclude_seen") =>
    LET a == call.args
        out == call.out
        n == Cardinality(UnseenFps(a))
    IN  /\ Len(out) >= n
        /\ { signal_fingerprint(out[i]) : i \in 1..n } = UnseenFps(a)
        /\ \A i \in (n+1)..Len(out) :
             signal_fingerprint(out[i]) \in a.existing_fps
        /\ Len(out) - n <= Max0(a.min_count - n)
        /\ n >= a.min_count => Len(out) = n
        /\ Len(out) > n => Len(out) <= a.min_count

\* Two seen records and none unseen, min_count 1: one seen record is
\* returned.
C14_Witness ==
  /\ DedupeDone /\ call.args.dedupe_policy = "exclude_seen"
  /\ call.args.min_count = 1
  /\ call.args.signals = <<Base, Initech>>
  /\ UnseenFps(call.args) = {}
  /\ call.out = <<Base>>

\* The position in the batch of the first record with the fingerprint fp.
FirstPos(signals, fp) ==
  CHOOSE i \in DOMAIN signals :
    /\ signal_fingerprint(signals[i]) = fp
    /\ \A j \in 1..(i-1) : signal_fingerprint(signals[j]) # fp

\* C15: under every policy no two returned records have the same
\* fingerprint; each returned record is the first record of the batch with
\* its fingerprint; and two returned records that are both unseen, or both
\* seen, come in the order they had in the batch.
C15_NoDuplicates ==
  DedupeDone =>
    LET a == call.args
        out == call.out
        fp(k) == signal_fingerprint(out[k])
        isSeen(k) == fp(k) \in a.existing_fps
    IN  /\ \A k, l \in DOMAIN out : k # l => fp(k) # fp(l)
        /\ \A k \in DOMAIN out :
             /\ \E i \in DOMAIN a.signals : signal_fingerprint(a.signals[i]) = fp(k)
             /\ out[k] = a.signals[FirstPos(a.signals, fp(k))]
        /\ \A k, l \in DOMAIN out :
             (k < l /\ isSeen(k) = isSeen(l))
               => FirstPos(a.signals, fp(k)) < FirstPos(a.signals, fp(l))

\* A batch of two records with one fingerprint and different contents:
\* the first is returned under allow_seen.
C15_Witness ==
  /\ DedupeDone /\ call.args.dedupe_policy = "allow_seen"
  /\ call.args.signals = <<[Base EXCEPT !.institution = NULL], Base>>
  /\ call.out = <<[Base EXCEPT !.institution = NULL]>>

(***************************************************************************)
(* Text.  The scout's filters look inside strings: lower(), "x in s",      *)
(* find() and slices.  Words(s) is the text of the string s in lower case, *)
(* word by word (for the strings the candidate records of the model use),  *)
(* and a phrase is matched where its words stand next to each other.       *)
(***************************************************************************)
\* n words of neutral text.
Filler(n) == [i \in 1..n |-> "lorem"]

FarCryptoSummary == "acme (...) a cryptocurrency fund"
NearCryptoSummary == "acme is a crypto exchange"
VendorSummary == "initech buys from an llm provider"
FarVendorSummary == "acme (...) its llm provider"
HintSummary == "acme starts an llm rollout"

Words(s) ==
  CASE s = "acme" -> <<"acme">>
    [] s = "initech" -> <<"initech">>
    [] s = "hooli" -> <<"hooli">>
    [] s = "globex" -> <<"globex">>
    [] s = "Deloitte" -> <<"deloitte">>
    [] s = "OpenAI" -> <<"openai">>
    [] s = "Middle East" -> <<"middle", "east">>
    [] s = "UK Businesses" -> <<"uk", "businesses">>
    [] s = "Acme Bank Ltd" -> <<"acme", "bank", "ltd">>
    [] s = "hire" -> <<"hire">>
    [] s = "s1" -> <<"acme", "hires", "a", "vp">>
    [] s = "s2" -> <<"acme", "hires", "a", "director">>
    [] s = FarCryptoSummary ->
         <<"acme">> \o Filler(48) \o <<"a", "cryptocurrency", "fund">>
    [] s = NearCryptoSummary -> <<"acme", "is", "a", "crypto", "exchange">>
    [] s = VendorSummary ->
         <<"initech", "buys", "from", "an", "llm", "provider">>
    [] s = FarVendorSummary ->
         <<"acme">> \o Filler(48) \o <<"its", "llm", "provider">>
    [] s = HintSummary -> <<"acme", "starts", "an", "llm", "rollout">>
    [] s = "polish bank ai pilot" -> <<"polish", "bank", "ai", "pilot">>
    [] s = "gulf fintech funding" -> <<"gulf", "fintech", "funding">>
    [] OTHER -> <<>>

\* len(word)
WordLen(w) ==
  CASE w \in {"a"} -> 1
    [] w \in {"vp", "is", "an"} -> 2
    [] w \in {"llm", "its"} -> 3
    [] w \in {"acme", "fund", "buys", "from"} -> 4
    [] w \in {"lorem", "hires"} -> 5
    [] w \in {"crypto", "starts"} -> 6
    [] w \in {"initech", "rollout"} -> 7
    [] w \in {"director", "exchange", "provider"} -> 8
    [] w = "cryptocurrency" -> 14
    [] OTHER -> 5

\* The index in the string of the first character of word i: the words
\* before it, each followed by one blank.
Offset(text, i) ==
  LET F[j \in 1..i] == IF j = 1 THEN 0 ELSE F[j-1] + WordLen(text[j-1]) + 1
  IN  F[i]

\* The positions at which the phrase starts in the text.
Occurrences(text, phrase) ==
  { i \in 1..(Len(text) - Len(phrase) + 1) :
      SubSeq(text, i, i + Len(phrase) - 1) = phrase }

\* phrase in text
Contains(text, phrase) == Occurrences(text, phrase) # {}

\* text.find(phrase), as a word position
Find(text, phrase) ==
  CHOOSE i \in Occurrences(text, phrase) :
    \A j \in Occurrences(text, phrase) : i <= j

\* The last word of text[start:start + width] that the slice holds whole,
\* start being the position of a word and width a number of characters.
SliceEnd(text, start, width) ==
  LET inside == { j \in start..Len(text) :
                    Offset(text, j) + WordLen(text[j]) - Offset(text, start)
                      <= width }
  IN  IF inside = {} THEN start - 1
      ELSE CHOOSE j \in inside : \A k \in inside : k <= j

(***************************************************************************)
(* The scout's filters (signal_scout.py), each on a list of records.  Of   *)
(* the keyword tables, the entries that some text of the model can match.  *)
(***************************************************************************)
_TIER1_INSTITUTIONS == { <<"goldman", "sachs">>, <<"deloitte">>, <<"ey">> }
_LARGE_ENTERPRISE_EXCLUSIONS == { <<"oracle">>, <<"hewlett", "packard">> }

filter_tier1(signals) ==
  Kept(signals,
       { i \in DOMAIN signals :
           LET institution_lower == Words(signals[i].institution)
               tier == Lower(signals[i].institution_tier)
               blocked_name ==
                 \E name \in _TIER1_INSTITUTIONS :
                   Contains(institution_lower, name)
               blocked_large ==
                 \E name \in _LARGE_ENTERPRISE_EXCLUSIONS :
                   Contains(institution_lower, name)
           IN  ~(tier = "tier1" \/ blocked_name \/ blocked_large) })

_CRYPTO_PRIMARY_KEYWORDS ==
  { <<"cryptocurrency">>, <<"crypto", "exchange">>, <<"nft", "marketplace">> }

\* The whole summary is searched.
is_crypto_primary(sig) ==
  \/ Lower(sig.domain) = "crypto"
  \/ \E kw \in _CRYPTO_PRIMARY_KEYWORDS : Contains(Words(sig.summary), kw)

filter_crypto(signals) ==
  Kept(signals, { i \in DOMAIN signals : ~is_crypto_primary(signals[i]) })

_AI_NATIVE_INSTITUTION_KEYWORDS == { <<"openai">>, <<"mistral", "ai">> }
_AI_NATIVE_SELF_PATTERNS ==
  { <<"llm", "provider">>, <<"builds", "ai", "models">>, <<"ai", "lab">> }

\* summary_lower[start:start + 240]
LocalWindowChars == 240

\* local_window: the summary from the institution's first mention on, 240
\* characters of it; the whole summary when the institution is not in it.
local_window(institution_lower, summary_lower) ==
  IF institution_lower # <<>> /\ Contains(summary_lower, institution_lower)
  THEN LET start == Find(summary_lower, institution_lower)
       IN  SubSeq(summary_lower, start,
                  SliceEnd(summary_lower, start, LocalWindowChars))
  ELSE summary_lower

is_ai_native(sig) ==
  LET institution_lower == Words(sig.institution)
      summary_lower == Words(sig.summary)
      known_ai_native ==
        \E name \in _AI_NATIVE_INSTITUTION_KEYWORDS :
          Contains(institution_lower, name)
      self_described_ai_vendor ==
        \E pattern \in _AI_NATIVE_SELF_PATTERNS :
          Contains(local_window(institution_lower, summary_lower), pattern)
  IN  known_ai_native \/ self_described_ai_vendor

filter_ai_native_companies(signals) ==
  Kept(signals, { i \in DOMAIN signals : ~is_ai_native(signals[i]) })

(***************************************************************************)
(* Dates.  Chars(s) is the date string s character by character; strptime  *)
(* reads it as datetime.strptime does under "%Y-%m-%d" and "%Y-%m": four   *)
(* digits, a month of one or two digits from 1 to 12, a day of one or two  *)
(* digits (or a blank and a digit) that the month has, and nothing left    *)
(* over.  A datetime is its proleptic Gregorian day number (toordinal) and *)
(* the seconds since midnight.                                             *)
(***************************************************************************)
Chars(s) ==
  CASE s = NULL -> <<>>
    [] s = "" -> <<>>
    [] s = "2025-01" -> <<"2", "0", "2", "5", "-", "0", "1">>
    [] s = "2025-01 " -> <<"2", "0", "2", "5", "-", "0", "1", " ">>
    [] s = "2024-02-10" -> <<"2", "0", "2", "4", "-", "0", "2", "-", "1", "0">>
    [] s = "2024-12-16" -> <<"2", "0", "2", "4", "-", "1", "2", "-", "1", "6">>
    [] s = "2025-03-01" -> <<"2", "0", "2", "5", "-", "0", "3", "-", "0", "1">>
    [] s = "2025-02-30" -> <<"2", "0", "2", "5", "-", "0", "2", "-", "3", "0">>
    [] s = "2025-1-5" -> <<"2", "0", "2", "5", "-", "1", "-", "5">>
    [] s = "soon" -> <<"s", "o", "o", "n">>
    [] s = BLANK -> <<" ", " ">>
    [] OTHER -> <<"?">>

DigitVal(c) ==
  CASE c = "0" -> 0 [] c = "1" -> 1 [] c = "2" -> 2 [] c = "3" -> 3
    [] c = "4" -> 4 [] c = "5" -> 5 [] c = "6" -> 6 [] c = "7" -> 7
    [] c = "8" -> 8 [] c = "9" -> 9 [] OTHER -> -1

AllDigits(cs) == \A i \in DOMAIN cs : DigitVal(cs[i]) >= 0

NumVal(cs) ==
  LET F[i \in 0..Len(cs)] == IF i = 0 THEN 0 ELSE 10 * F[i-1] + DigitVal(cs[i])
  IN  F[Len(cs)]

\* The pieces of cs between its dashes.
Segments(cs) ==
  LET dashes == { i \in DOMAIN cs : cs[i] = "-" }
      F[i \in 0..Len(cs)] ==
        IF i = 0 THEN << <<>> >>
        ELSE IF i \in dashes THEN Append(F[i-1], <<>>)
             ELSE [F[i-1] EXCEPT ![Len(F[i-1])] = Append(@, cs[i])]
  IN  F[Len(cs)]

IsLeap(y) == (y % 4 = 0 /\ y % 100 # 0) \/ y % 400 = 0

DaysInMonth(y, m) ==
  IF m = 2 THEN (IF IsLeap(y) THEN 29 ELSE 28)
  ELSE IF m \in {4, 6, 9, 11} THEN 30 ELSE 31

\* date(y, m, d).toordinal()
Ordinal(y, m, d) ==
  LET y1 == y - 1
      before[k \in 1..12] == IF k = 1 THEN 0 ELSE before[k-1] + DaysInMonth(y, k-1)
  IN  y1 * 365 + (y1 \div 4) - (y1 \div 100) + (y1 \div 400) + before[m] + d

\* No datetime: strptime raised ValueError or TypeError.
NoDate == -1

YearOk(cs) == Len(cs) = 4 /\ AllDigits(cs) /\ NumVal(cs) >= 1
MonthOk(cs) == Len(cs) \in {1, 2} /\ AllDigits(cs) /\ NumVal(cs) \in 1..12
DayText(cs) == IF Len(cs) = 2 /\ cs[1] = " " THEN Tail(cs) ELSE cs
DayOk(cs) ==
  /\ Len(cs) \in {1, 2} /\ AllDigits(DayText(cs))
  /\ NumVal(DayText(cs)) \in 1..31
  /\ (Len(cs) = 2 /\ cs[1] = " ") => NumVal(DayText(cs)) \in 1..9

\* datetime.strptime(date_str, fmt).toordinal(), or NoDate.
strptime(date_str, fmt) ==
  LET seg == Segments(Chars(date_str))
  IN  IF date_str = NULL THEN NoDate
      ELSE IF fmt = "%Y-%m-%d"
      THEN IF /\ Len(seg) = 3 /\ YearOk(seg[1]) /\ MonthOk(seg[2])
              /\ DayOk(seg[3])
              /\ NumVal(DayText(seg[3]))
                   <= DaysInMonth(NumVal(seg[1]), NumVal(seg[2]))
           THEN Ordinal(NumVal(seg[1]), NumVal(seg[2]), NumVal(DayText(seg[3])))
           ELSE NoDate
      ELSE IF Len(seg) = 2 /\ YearOk(seg[1]) /\ MonthOk(seg[2])
           THEN Ordinal(NumVal(seg[1]), NumVal(seg[2]), 1)
           ELSE NoDate

\* The loop over ("%Y-%m-%d", "%Y-%m"): the first format that parses.
parsed_date(date_str) ==
  IF strptime(date_str, "%Y-%m-%d") # NoDate
  THEN strptime(date_str, "%Y-%m-%d")
  ELSE strptime(date_str, "%Y-%m")

\* A filter that also drops the records whose date does not parse.
is_old_OrUnparsed(sig, cutoff_days, now) ==
  LET parsed == parsed_date(sig.signal_date)
  IN  parsed = NoDate \/ parsed < now.day - cutoff_days

\* parsed is not None and parsed < cutoff, where parsed is a midnight and
\* cutoff = now - timedelta(days=cutoff_days) keeps now's time of day.
is_old(sig, cutoff_days, now) ==
  LET parsed == parsed_date(sig.signal_date)
      cutoff == [day |-> now.day - cutoff_days, seconds |-> now.seconds]
  IN  /\ parsed # NoDate
      /\ \/ parsed < cutoff.day
         \/ parsed = cutoff.day /\ 0 < cutoff.seconds

filter_old_signals(signals, cutoff_days, now) ==
  Kept(signals, { i \in DOMAIN signals : ~is_old(signals[i], cutoff_days, now) })

(***************************************************************************)
(* filter_old_signals on its own (specification RecencySpec).  Now is      *)
(* 2025-03-16, at noon or at midnight; 400 days before it is 2024-02-10    *)
(* and 90 days before it 2024-12-16.                                       *)
(***************************************************************************)
RecencyDates ==
  { "2025-01", "2025-01 ", "", NULL, "2024-02-10", "2024-12-16",
    "2025-03-01", "2025-02-30", "2025-1-5", "soon" }

RecencyPool == { [Base EXCEPT !.signal_date = d] : d \in RecencyDates }

\* datetime.now()
Nows == { [day |-> Ordinal(2025, 3, 16), seconds |-> s] : s \in {0, 43200} }

RecencyInputs ==
  [signals : SeqsUpTo(RecencyPool, MaxReportLen), cutoff_days : {1, 90},
   now : Nows]

RecencyInit ==
  /\ db = EmptyDb /\ conn = NoConn /\ last = NoLast /\ rd = "idle"
  /\ result = NoResult /\ pl = NoPipeline /\ srv = NoServer
  /\ \E a \in RecencyInputs :
       call = [fn |-> "filter_old_signals", args |-> a, calls |-> 0,
               out |-> <<>>]

CallFilterOld ==
  /\ call.fn = "filter_old_signals"
  /\ call.calls = 0
  /\ call' = [call EXCEPT
                !.calls = 1,
                !.out = filter_old_signals(call.args.signals,
                                           call.args.cutoff_days,
                                           call.args.now)]
  /\ UNCHANGED <<db, conn, last, rd, result, pl, srv>>

RecencyNext == CallFilterOld

RecencySpec == RecencyInit /\ [][RecencyNext]_vars

\* The day number of the date each string of RecencyDates stands for when
\* read as YYYY-MM-DD or YYYY-MM (a month is its first day), NoDate for a
\* string that is neither.
CalendarDay(s) ==
  CASE s = NULL -> NoDate
    [] s = "2025-01" -> 739252
    [] s = "2024-02-10" -> 738926
    [] s = "2024-12-16" -> 739236
    [] s = "2025-03-01" -> 739311
    [] s = "2025-1-5" -> 739256
    [] s = "2025-03-16" -> 739326
    [] OTHER -> NoDate

Today == CalendarDay("2025-03-16")

\* d at midnight is not earlier than now minus cutoff_days.
NotEarlier(d, cutoff_days, now) ==
  \/ d > Today - cutoff_days
  \/ d = Today - cutoff_days /\ now.seconds = 0

\* The positions of a strictly increasing choice of n positions of sigs
\* that yields out.
IsSubList(out, sigs) ==
  \E keep \in SUBSET DOMAIN sigs : out = Kept(sigs, keep)

\* C18: filter_old_signals returns, in their input order, exactly the
\* records whose signal_date does not parse as YYYY-MM-DD or YYYY-MM (absent
\* and blank included) or parses to a date not earlier than now minus
\* cutoff_days.
C18_RecencyFilter ==
  (call.fn = "filter_old_signals" /\ call.calls = 1) =>
    LET a == call.args
        keeps(sig) ==
          \/ CalendarDay(sig.signal_date) = NoDate
          \/ NotEarlier(CalendarDay(sig.signal_date), a.cutoff_days, a.now)
    IN  /\ a.now.day = Today
        /\ IsSubList(call.out, a.signals)
        /\ \A sig \in Records(a.signals) :
             keeps(sig) <=> sig \in Records(call.out)
        /\ Len(call.out) =
             Cardinality({ i \in DOMAIN a.signals : keeps(a.signals[i]) })

\* cutoff_days = 90: the record dated 400 days ago is dropped, the one
\* with an unparsable date is kept.
C18_Witness ==
  /\ call.fn = "filter_old_signals" /\ call.calls = 1
  /\ call.args.cutoff_days = 90
  /\ call.args.signals = <<[Base EXCEPT !.signal_date = "2024-02-10"],
                           [Base EXCEPT !.signal_date = "soon"]>>
  /\ call.out = <<[Base EXCEPT !.signal_date = "soon"]>>

(***************************************************************************)
(* filter_crypto on its own (specification CryptoSpec): summaries without  *)
(* a crypto keyword, with one next to the institution's name and with one  *)
(* more than 240 characters after it; the institution named in the summary *)
(* (acme) or not (initech).                                                *)
(***************************************************************************)
CryptoPool ==
  { [Base EXCEPT !.institution = i, !.summary = s, !.domain = d] :
      i \in {"acme", "initech"},
      s \in {"s1", NearCryptoSummary, FarCryptoSummary},
      d \in {"ai_transformation", "crypto", "Crypto"} }

CryptoInit ==
  /\ db = EmptyDb /\ conn = NoConn /\ last = NoLast /\ rd = "idle"
  /\ result = NoResult /\ pl = NoPipeline /\ srv = NoServer
  /\ \E sigs \in SeqsUpTo(CryptoPool, MaxReportLen) :
       call = [fn |-> "filter_crypto", args |-> sigs, calls |-> 0,
               out |-> <<>>]

CallFilterCrypto ==
  /\ call.fn = "filter_crypto"
  /\ call.calls = 0
  /\ call' = [call EXCEPT !.calls = 1, !.out = filter_crypto(call.args)]
  /\ UNCHANGED <<db, conn, last, rd, result, pl, srv>>

CryptoNext == CallFilterCrypto

CryptoSpec == CryptoInit /\ [][CryptoNext]_vars

\* A crypto keyword stands in the local context window of the record: the
\* 240 characters of the summary from the institution's first mention on.
KeywordInWindow(sig) ==
  \E kw \in _CRYPTO_PRIMARY_KEYWORDS :
    Contains(local_window(Words(sig.institution), Words(sig.summary)), kw)

\* C19: filter_crypto keeps every record whose domain is not crypto and
\* whose summary has no crypto keyword inside the local context window,
\* also when a keyword stands elsewhere in the summary.
C19_WindowedMatch ==
  (call.fn = "filter_crypto" /\ call.calls = 1) =>
    \A sig \in Records(call.args) :
      (Lower(sig.domain) # "crypto" /\ ~KeywordInWindow(sig))
        => sig \in Records(call.out)

(***************************************************************************)
(* pipeline_profile.py: the pydantic schema of a profile.  A payload is    *)
(* the parsed JSON object; a dict is the set of its <<key, value>> pairs.  *)
(* Of the fields, those with a constraint: objective (required),           *)
(* time_window_days and ranking.                                           *)
(***************************************************************************)
\* d.get(k, default)
Get(d, k, default) ==
  IF \E p \in d : p[1] = k THEN (CHOOSE p \in d : p[1] = k)[2] ELSE default

\* Field(max_length=5) of RankingConfig.categories
MaxCategories == 5

\* A weight field without bounds.
WeightOk_Any(w) == TRUE

\* Field(ge=0, le=100) of RankingCategory.weight
WeightOk(w) == w >= 0 /\ w <= 100

SumWeights(categories) ==
  LET F[i \in 0..Len(categories)] ==
        IF i = 0 THEN 0 ELSE F[i-1] + categories[i].weight
  IN  F[Len(categories)]

\* RankingConfig: the field constraints, ensure_unique_category_keys and
\* validate_weights_and_thresholds; TRUE when none of them raises.
RankingConfigOk(ranking) ==
  LET categories == ranking.categories
      hot == Get(ranking.priority_thresholds, "HOT", 80)
      warm == Get(ranking.priority_thresholds, "WARM", 60)
      nurture == Get(ranking.priority_thresholds, "NURTURE", 40)
  IN  /\ Len(categories) <= MaxCategories
      /\ \A i \in DOMAIN categories :
           /\ categories[i].key # NULL /\ categories[i].label # NULL
           /\ WeightOk(categories[i].weight)
      /\ \A i, j \in DOMAIN categories :
           i # j => categories[i].key # categories[j].key
      /\ SumWeights(categories) = 100
      /\ hot > warm /\ warm > nurture /\ nurture >= 0

\* PipelineProfile: objective is required, time_window_days is
\* Field(default=90, ge=1, le=3650).
PipelineProfileOk(payload) ==
  /\ payload.objective # NULL
  /\ payload.time_window_days >= 1 /\ payload.time_window_days <= 3650
  /\ RankingConfigOk(payload.ranking)

ValidationError == [raised |-> "ValidationError"]

\* PipelineProfile.model_validate(payload): the model built from the
\* payload's values, or ValidationError.
validate_profile_dict(payload) ==
  IF PipelineProfileOk(payload)
  THEN [raised |-> "none",
        objective |-> payload.objective,
        time_window_days |-> payload.time_window_days,
        ranking |->
          [categories |->
             [i \in DOMAIN payload.ranking.categories |->
                [key |-> payload.ranking.categories[i].key,
                 label |-> payload.ranking.categories[i].label,
                 weight |-> payload.ranking.categories[i].weight,
                 description |-> ""]],
           priority_thresholds |-> payload.ranking.priority_thresholds]]
  ELSE ValidationError

(***************************************************************************)
(* validate_profile_dict on its own (specification ProfileSpec).           *)
(***************************************************************************)
MaxCategoryList == 6

CategoryKeys == <<"action_strength", "buyer_fit", "domain_fit", "seniority",
                  "recency", "custom", "extra", "more">>

Category(key, label, weight) == [key |-> key, label |-> label, weight |-> weight]

\* Lists of categories with distinct keys and weights 0, 50 or 100, and
\* lists that break one rule each: a key twice, weights out of range, a sum
\* of 99, a category without label.
CategoryLists ==
  { [i \in 1..n |-> Category(CategoryKeys[i], "label", w[i])] :
      n \in 0..MaxCategoryList, w \in [1..MaxCategoryList -> {0, 50, 100}] }
  \cup
  { << Category("recency", "Recency", 50), Category("recency", "Recency", 50) >>,
    << Category("recency", "Recency", 150), Category("seniority", "Seniority", -50) >>,
    << Category("recency", "Recency", 30), Category("seniority", "Seniority", 69) >>,
    << Category("recency", NULL, 100) >> }

ThresholdDicts ==
  { { <<"HOT", 80>>, <<"WARM", 60>>, <<"NURTURE", 40>> },
    { <<"HOT", 70>>, <<"WARM", 50>>, <<"NURTURE", 0>> },
    { <<"HOT", 60>>, <<"WARM", 60>>, <<"NURTURE", 40>> },
    { <<"HOT", 80>>, <<"WARM", 60>>, <<"NURTURE", -1>> },
    { <<"HOT", 50>> },
    { <<"HOT", 90>>, <<"hot", 10>> },
    {} }

ProfilePayloads ==
  [objective : {"find buying signals", NULL},
   time_window_days : {90, 0},
   ranking : [categories : CategoryLists, priority_thresholds : ThresholdDicts]]

ProfileInit ==
  /\ db = EmptyDb /\ conn = NoConn /\ last = NoLast /\ rd = "idle"
  /\ result = NoResult /\ pl = NoPipeline /\ srv = NoServer
  /\ \E payload \in ProfilePayloads :
       call = [fn |-> "validate_profile_dict", args |-> payload, calls |-> 0,
               out |-> ValidationError]

CallValidateProfile ==
  /\ call.fn = "validate_profile_dict"
  /\ call.calls = 0
  /\ call' = [call EXCEPT !.calls = 1, !.out = validate_profile_dict(call.args)]
  /\ UNCHANGED <<db, conn, last, rd, result, pl, srv>>

ProfileNext == CallValidateProfile

ProfileSpec == ProfileInit /\ [][ProfileNext]_vars

ProfileValidated == call.fn = "validate_profile_dict" /\ call.calls = 1

\* The four conditions on the ranking, the thresholds a dict leaves out
\* standing at 80, 60 and 40.
RankingRules(ranking) ==
  LET c == ranking.categories
      t == ranking.priority_thresholds
  IN  /\ Len(c) <= 5
      /\ Cardinality({ c[i].key : i \in DOMAIN c }) = Len(c)
      /\ SumWeights(c) = 100
      /\ Get(t, "HOT", 80) > Get(t, "WARM", 60)
      /\ Get(t, "WARM", 60) > Get(t, "NURTURE", 40)
      /\ Get(t, "NURTURE", 40) >= 0

Unaltered(out, payload) ==
  /\ Len(out.ranking.categories) = Len(payload.ranking.categories)
  /\ \A i \in DOMAIN payload.ranking.categories :
       /\ out.ranking.categories[i].key = payload.ranking.categories[i].key
       /\ out.ranking.categories[i].weight = payload.ranking.categories[i].weight
  /\ out.ranking.priority_thresholds = payload.ranking.priority_thresholds

\* C20 as stated: a profile is accepted exactly when its ranking has at
\* most 5 categories with distinct keys, weights summing to 100 and
\* thresholds HOT > WARM > NURTURE >= 0, and an accepted profile comes back
\* with its categories, weights and thresholds unaltered.
C20_AcceptsIffRanking ==
  ProfileValidated =>
    /\ (call.out.raised = "none") <=> RankingRules(call.args.ranking)
    /\ call.out.raised = "none" => Unaltered(call.out, call.args)

\* C20, amended: a profile is accepted exactly when, besides the four
\* conditions on its ranking, every weight is between 0 and 100, every
\* category has its label, the objective is present and time_window_days is
\* between 1 and 3650; every
\* other profile raises ValidationError, and an accepted profile comes back
\* with its categories, weights and thresholds unaltered.
C20_AcceptsIffSchema ==
  ProfileValidated =>
    /\ (call.out.raised = "none") <=>
         /\ RankingRules(call.args.ranking)
         /\ \A i \in DOMAIN call.args.ranking.categories :
              /\ call.args.ranking.categories[i].weight \in 0..100
              /\ call.args.ranking.categories[i].label # NULL
         /\ call.args.objective # NULL
         /\ call.args.time_window_days \in 1..3650
    /\ call.out.raised # "none" => call.out = ValidationError
    /\ call.out.raised = "none" => Unaltered(call.out, call.args)

\* Two weights of 150 and -50 with lawful thresholds and fields: rejected.
C20_Witness ==
  /\ ProfileValidated
  /\ call.args.objective # NULL /\ call.args.time_window_days = 90
  /\ RankingRules(call.args.ranking)
  /\ SumWeights(call.args.ranking.categories) = 100
  /\ \E i \in DOMAIN call.args.ranking.categories :
       call.args.ranking.categories[i].weight = 150
  /\ call.out = ValidationError

(***************************************************************************)
(* rebalance_ai_focus.                                                     *)
(***************************************************************************)
_AI_PRIORITY_DOMAINS ==
  {"ai_transformation", "ai_implementation", "agentic_automation",
   "ai_compliance_risk"}

\* _normalize_domain on the domains of the model: strip, lower, "-" and
\* "/" to "_", one pass of replace("  ", " ") (which halves a run of four
\* blanks), then the synonym table.
_normalize_domain(domain) ==
  CASE domain = NULL -> ""
    [] domain = "AI Implementation" -> "ai_implementation"
    [] domain = "ai-agents" -> "agentic_automation"
    [] domain = "Crypto" -> "crypto"
    [] domain = "ai    implementation" -> "ai  implementation"
    [] domain = "ai  implementation" -> "ai_implementation"
    [] OTHER -> Trim(domain)

_AI_HINT_KEYWORDS ==
  { <<"agentic">>, <<"ai", "agent">>, <<"llm">>, <<"copilot">>,
    <<"generative", "ai">>, <<"workflow", "automation">> }

\* round(n * 0.5): Python rounds a half to the even neighbour.
RoundHalf(n) ==
  IF n % 2 = 0 THEN n \div 2
  ELSE IF (n \div 2) % 2 = 0 THEN n \div 2 ELSE (n \div 2) + 1

has_ai_hint(sig) ==
  LET text == Words(sig.summary) \o Words(sig.signal_type)
  IN  \E kw \in _AI_HINT_KEYWORDS : Contains(text, kw)

\* target_ratio = 0.5, as the scout calls it.  F[i] is the batch and
\* ai_count after the promotion loop has passed record i.
rebalance_ai_focus(signals) ==
  IF signals = <<>> THEN signals
  ELSE
    LET normalized ==
          [i \in DOMAIN signals |->
             [signals[i] EXCEPT !.domain = _normalize_domain(@)]]
        ai_count0 ==
          Cardinality({ i \in DOMAIN normalized :
                          normalized[i].domain \in _AI_PRIORITY_DOMAINS })
        target_count ==
          IF RoundHalf(Len(signals)) > 1 THEN RoundHalf(Len(signals)) ELSE 1
        F[i \in 0..Len(signals)] ==
          IF i = 0 THEN [sigs |-> normalized, ai_count |-> ai_count0]
          ELSE IF /\ F[i-1].ai_count < target_count
                  /\ F[i-1].sigs[i].domain \notin _AI_PRIORITY_DOMAINS
                  /\ has_ai_hint(F[i-1].sigs[i])
               THEN [sigs |-> [F[i-1].sigs EXCEPT
                                 ![i].domain = "ai_implementation"],
                     ai_count |-> F[i-1].ai_count + 1]
               ELSE F[i-1]
    IN  F[Len(signals)].sigs

(***************************************************************************)
(* enrich_geo_fields.                                                      *)
(***************************************************************************)
\* run_searches: the results of this run, one per URL.
SearchResults ==
  { [url |-> "u1", content |-> "polish bank ai pilot"],
    [url |-> "u2", content |-> "gulf fintech funding"] }

\* COUNTRY_KEYWORDS, in the order of the dict, with the name returned.
COUNTRY_KEYWORDS ==
  << [country |-> "Saudi Arabia", keywords |-> { <<"saudi", "arabia">>, <<"saudi">> }],
     [country |-> "UAE", keywords |-> { <<"uae">>, <<"dubai">> }],
     [country |-> "Poland", keywords |-> { <<"poland">>, <<"polish">> }] >>

COUNTRY_TO_REGION(country_lower) ==
  CASE country_lower \in {"saudi arabia", "uae"} -> "Middle East"
    [] country_lower = "poland" -> "Eastern Europe"
    [] OTHER -> ""

_detect_country(text) ==
  LET hits == { k \in DOMAIN COUNTRY_KEYWORDS :
                  \E kw \in COUNTRY_KEYWORDS[k].keywords : Contains(text, kw) }
  IN  IF hits = {} THEN ""
      ELSE COUNTRY_KEYWORDS[CHOOSE k \in hits : \A j \in hits : k <= j].country

_detect_region(text) ==
  IF \E kw \in { <<"middle", "east">>, <<"gcc">>, <<"gulf">> } : Contains(text, kw)
  THEN "Middle East"
  ELSE IF Contains(text, <<"eastern", "europe">>) THEN "Eastern Europe"
  ELSE ""

url_ctx(source_url) ==
  IF \E r \in SearchResults : r.url = source_url
  THEN Words((CHOOSE r \in SearchResults : r.url = source_url).content)
  ELSE <<>>

enrich_geo(sig) ==
  LET country0 == Trim(IF Truthy(sig.country) THEN sig.country ELSE "")
      region0 == Trim(IF Truthy(sig.region) THEN sig.region ELSE "")
      context_text ==
        Words(sig.institution) \o Words(sig.summary) \o url_ctx(sig.source_url)
      country == IF country0 = "" THEN _detect_country(context_text) ELSE country0
      region1 == IF region0 = "" THEN _detect_region(context_text) ELSE region0
      region == IF region1 = "" /\ country # ""
                THEN COUNTRY_TO_REGION(Lower(country)) ELSE region1
  IN  [sig EXCEPT !.country = OrUnspecified(country),
                  !.region = OrUnspecified(region)]

enrich_geo_fields(signals) == [i \in DOMAIN signals |-> enrich_geo(signals[i])]

(***************************************************************************)
(* filter_non_company_institutions, filter_generic_institution_labels.     *)
(***************************************************************************)
country_names == { <<"saudi", "arabia">>, <<"uae">>, <<"poland">> }
region_names == { <<"middle", "east">>, <<"eastern", "europe">> }
NON_COMPANY_TOKENS ==
  { <<"ministry">>, <<"government">>, <<"central", "bank">>, <<"university">> }

is_non_company(sig) ==
  LET low == Words(sig.institution)
  IN  \/ low = <<>>
      \/ low \in country_names \/ low \in region_names
      \/ \E token \in NON_COMPANY_TOKENS : Contains(low, token)

filter_non_company_institutions(signals) ==
  Kept(signals, { i \in DOMAIN signals : ~is_non_company(signals[i]) })

GENERIC_INSTITUTION_NOUNS ==
  {"enterprise", "enterprises", "business", "businesses", "company",
   "companies", "sector", "market", "markets"}
INSTITUTION_FILLER_WORDS ==
  {"the", "and", "of", "global", "regional", "middle", "east", "eastern",
   "europe", "gcc", "uk", "uae"}
COMPANY_HINT_TOKENS ==
  {"inc", "corp", "company", "ltd", "group", "holdings", "bank"}

is_generic_label(sig) ==
  LET alpha_tokens == Words(sig.institution)
      tokens == { alpha_tokens[i] : i \in DOMAIN alpha_tokens }
      contains_company_hint == tokens \cap COMPANY_HINT_TOKENS # {}
      contains_generic_noun == tokens \cap GENERIC_INSTITUTION_NOUNS # {}
      reduced == { i \in DOMAIN alpha_tokens :
                     /\ alpha_tokens[i] \notin GENERIC_INSTITUTION_NOUNS
                     /\ alpha_tokens[i] \notin INSTITUTION_FILLER_WORDS }
  IN  \/ alpha_tokens = <<>>
      \/ reduced = {}
      \/ /\ contains_generic_noun /\ ~contains_company_hint
         /\ Cardinality(reduced) <= 2

filter_generic_institution_labels(signals) ==
  Kept(signals, { i \in DOMAIN signals : ~is_generic_label(signals[i]) })

(***************************************************************************)
(* enforce_output_window: sorted on (signal_date, run_timestamp),          *)
(* reverse=True, then [:max_count].  No record of the model has a          *)
(* run_timestamp, so the key is the date string; strings compare character *)
(* by character, and the sort keeps equal keys in their input order.       *)
(***************************************************************************)
\* ord(c) for the characters of the date strings.
CharRank(c) ==
  CASE c = " " -> 32 [] c = "-" -> 45 [] c = "?" -> 63
    [] c = "n" -> 110 [] c = "o" -> 111 [] c = "s" -> 115
    [] OTHER -> 48 + DigitVal(c)

\* a < b for strings
LexLess(a, b) ==
  \E k \in 1..Len(b) :
    /\ \A j \in 1..(k-1) : j <= Len(a) /\ a[j] = b[j]
    /\ \/ k > Len(a)
       \/ k <= Len(a) /\ CharRank(a[k]) < CharRank(b[k])

\* The place of record i in the sorted list.
SortedPlace(signals, i) ==
  LET key(j) == Chars(signals[j].signal_date)
  IN  1 + Cardinality({ j \in DOMAIN signals :
                          \/ LexLess(key(i), key(j))
                          \/ key(j) = key(i) /\ j < i })

\* A window that cuts the batch as it came.
enforce_output_window_Unsorted(signals, min_count, max_count) ==
  Take(signals, max_count)

\* The scout's records have no run_timestamp, so the second part of the
\* sort key is "" for all of them.
enforce_output_window(signals, min_count, max_count) ==
  LET ordered ==
        [p \in DOMAIN signals |->
           signals[CHOOSE i \in DOMAIN signals : SortedPlace(signals, i) = p]]
  IN  Take(ordered, max_count)

(***************************************************************************)
(* The scout's run from the parsed agent output to the report              *)
(* (specification ScoutSpec): phases 3 to 12 of signal_scout.py, one       *)
(* action each, in the order of the script.  call.signals is               *)
(* validated_signals, call.ran the phases done so far.                     *)
(***************************************************************************)
CandidatePool ==
  { Base, Initech, Unverified,
    [Base EXCEPT !.source_url = NULL],
    [Base EXCEPT !.institution = "Deloitte"],
    [Base EXCEPT !.summary = NearCryptoSummary],
    [Initech EXCEPT !.institution = "OpenAI"],
    [Base EXCEPT !.signal_date = "2024-02-10"],
    [Base EXCEPT !.institution = "Middle East"],
    [Base EXCEPT !.institution = "UK Businesses"],
    [Initech EXCEPT !.domain = "industrial_automation",
                    !.summary = HintSummary,
                    !.country = BLANK, !.region = NULL] }

ScoutInputs ==
  [parsed_signals : SeqsUpTo(CandidatePool, MaxReportLen),
   targets : {DefaultTargets, ValidProfileTargets},
   existing_fps : {{}, {signal_fingerprint(Base)}},
   now : {[day |-> Ordinal(2025, 3, 16), seconds |-> 43200]}]

ScoutInit ==
  /\ db = EmptyDb /\ conn = NoConn /\ last = NoLast /\ rd = "idle"
  /\ result = NoResult /\ pl = NoPipeline /\ srv = NoServer
  /\ \E a \in ScoutInputs :
       call = [fn |-> "signal_scout", args |-> a, calls |-> 0, out |-> <<>>,
               pc |-> "validate_signals", signals |-> <<>>, ran |-> <<>>]

\* The scout after the phase at call.pc has produced batch.
AfterPhase(next, batch) ==
  [call EXCEPT !.pc = next, !.signals = batch, !.ran = Append(@, call.pc)]

Phase3Validate ==
  /\ call.fn = "signal_scout"
  /\ call.pc = "validate_signals"
  /\ call' = AfterPhase("filter_tier1",
       validate_signals(call.args.parsed_signals, { r.url : r \in SearchResults }))
  /\ UNCHANGED <<db, conn, last, rd, result, pl, srv>>

Phase4Tier1 ==
  /\ call.fn = "signal_scout"
  /\ call.pc = "filter_tier1"
  /\ call' = AfterPhase("filter_crypto",
       filter_tier1(call.signals))
  /\ UNCHANGED <<db, conn, last, rd, result, pl, srv>>

Phase4bCrypto ==
  /\ call.fn = "signal_scout"
  /\ call.pc = "filter_crypto"
  /\ call' = AfterPhase("filter_ai_native_companies",
       filter_crypto(call.signals))
  /\ UNCHANGED <<db, conn, last, rd, result, pl, srv>>

Phase4cAiNative ==
  /\ call.fn = "signal_scout"
  /\ call.pc = "filter_ai_native_companies"
  /\ call' = AfterPhase("filter_old_signals",
       filter_ai_native_companies(call.signals))
  /\ UNCHANGED <<db, conn, last, rd, result, pl, srv>>

Phase5Recency ==
  /\ call.fn = "signal_scout"
  /\ call.pc = "filter_old_signals"
  /\ call' = AfterPhase("apply_dedupe_policy",
       filter_old_signals(call.signals, call.args.targets.recency_days, call.args.now))
  /\ UNCHANGED <<db, conn, last, rd, result, pl, srv>>

Phase6Dedupe ==
  /\ call.fn = "signal_scout"
  /\ call.pc = "apply_dedupe_policy"
  /\ call' = AfterPhase("rebalance_ai_focus",
       apply_dedupe_policy(call.signals, call.args.targets.dedupe_policy, call.args.targets.min_count, call.args.existing_fps))
  /\ UNCHANGED <<db, conn, last, rd, result, pl, srv>>

Phase7Rebalance ==
  /\ call.fn = "signal_scout"
  /\ call.pc = "rebalance_ai_focus"
  /\ call' = AfterPhase("enrich_geo_fields",
       rebalance_ai_focus(call.signals))
  /\ UNCHANGED <<db, conn, last, rd, result, pl, srv>>

Phase8EnrichGeo ==
  /\ call.fn = "signal_scout"
  /\ call.pc = "enrich_geo_fields"
  /\ call' = AfterPhase("filter_non_company_institutions",
       enrich_geo_fields(call.signals))
  /\ UNCHANGED <<db, conn, last, rd, result, pl, srv>>

Phase9NonCompany ==
  /\ call.fn = "signal_scout"
  /\ call.pc = "filter_non_company_institutions"
  /\ call' = AfterPhase("filter_generic_institution_labels",
       filter_non_company_institutions(call.signals))
  /\ UNCHANGED <<db, conn, last, rd, result, pl, srv>>

Phase10Generic ==
  /\ call.fn = "signal_scout"
  /\ call.pc = "filter_generic_institution_labels"
  /\ call' = AfterPhase("enforce_output_window",
       filter_generic_institution_labels(call.signals))
  /\ UNCHANGED <<db, conn, last, rd, result, pl, srv>>

Phase11Window ==
  /\ call.fn = "signal_scout"
  /\ call.pc = "enforce_output_window"
  /\ call' = AfterPhase("save_report",
       enforce_output_window(call.signals, call.args.targets.min_count, call.args.targets.max_count))
  /\ UNCHANGED <<db, conn, last, rd, result, pl, srv>>

\* Phase 12: json.dump of report_data; "signals" is validated_signals.
Phase12SaveReport ==
  /\ call.fn = "signal_scout"
  /\ call.pc = "save_report"
  /\ call' = [call EXCEPT !.pc = "done", !.out = call.signals,
                          !.calls = 1, !.ran = Append(@, "save_report")]
  /\ UNCHANGED <<db, conn, last, rd, result, pl, srv>>

ScoutNext ==
  \/ Phase3Validate
  \/ Phase4Tier1
  \/ Phase4bCrypto
  \/ Phase4cAiNative
  \/ Phase5Recency
  \/ Phase6Dedupe
  \/ Phase7Rebalance
  \/ Phase8EnrichGeo
  \/ Phase9NonCompany
  \/ Phase10Generic
  \/ Phase11Window
  \/ Phase12SaveReport

ScoutSpec == ScoutInit /\ [][ScoutNext]_vars

\* The order the stages are specified in: the seven filters, the
\* rebalancer, the windower, persistence.
SpecifiedOrder ==
  << "validate_signals", "filter_tier1", "filter_crypto",
     "filter_ai_native_companies", "filter_old_signals",
     "filter_non_company_institutions", "filter_generic_institution_labels",
     "rebalance_ai_focus", "enforce_output_window", "save_report" >>

SevenFilters == { SpecifiedOrder[k] : k \in 1..7 }

Ran == { call.ran[k] : k \in DOMAIN call.ran }

\* The stages of SpecifiedOrder among those run so far, in the order run.
RanSpecified ==
  Kept(call.ran, { k \in DOMAIN call.ran : call.ran[k] \in Records(SpecifiedOrder) })

\* C16: the stages run in the specified order, and the rebalancer has not
\* run before all seven filters have.
C16_StageOrder ==
  (call.fn = "signal_scout") =>
    /\ RanSpecified = SubSeq(SpecifiedOrder, 1, Len(RanSpecified))
    /\ "rebalance_ai_focus" \in Ran => SevenFilters \subseteq Ran

\* C17: validate_signals keeps, in their order, exactly the records whose
\* source_url is the URL of a search result of the run, a record without
\* source_url being dropped; and every record of every later batch, and of
\* the report the scout saves, has the URL of a search result.
C17_VerifiedUrls ==
  (call.fn = "signal_scout") =>
    LET urls == { r.url : r \in SearchResults }
        parsed == call.args.parsed_signals
    IN  /\ call.ran # <<>> =>
             \A sig \in Records(call.signals) : sig.source_url \in urls
        /\ call.ran = <<"validate_signals">> =>
             /\ IsSubList(call.signals, parsed)
             /\ \A sig \in Records(parsed) :
                  sig \in Records(call.signals) <=> sig.source_url \in urls
             /\ Len(call.signals) =
                  Cardinality({ i \in DOMAIN parsed : parsed[i].source_url \in urls })
             /\ \A sig \in Records(call.signals) : sig.source_url # NULL
        /\ call.pc = "done" =>
             \A sig \in Records(call.out) : sig.source_url \in urls

\* The agent returned a record with a URL that no search returned and one
\* with a URL that a search returned; the report holds the second only.
C17_Witness ==
  /\ call.fn = "signal_scout" /\ call.pc = "done"
  /\ call.args.parsed_signals = <<Unverified, Initech>>
  /\ Len(call.out) = 1
  /\ call.out[1].institution = "initech" /\ call.out[1].source_url = "u2"

(***************************************************************************)
(* signal_scorer.py: the programmatic scoring overrides.  A score          *)
(* breakdown is a dict from component name to block; a block is a record   *)
(* of its category, its points and its seniority_inferred flag, FALSE      *)
(* standing for a block without the key as well (every reader of the flag  *)
(* takes .get("seniority_inferred", False)).  In a scored record NULL      *)
(* stands for an absent key.                                               *)
(***************************************************************************)
ACTION_TYPE_SCORES(sig_type) ==
  CASE sig_type = "launch" -> 30
    [] sig_type = "filing" -> 25
    [] sig_type = "pilot" -> 22
    [] sig_type = "hire" -> 20
    [] sig_type = "partnership" -> 15
    [] sig_type = "investment" -> 10
    [] sig_type = "conference" -> 10
    [] sig_type = "other" -> 5
    [] OTHER -> 5                      \* .get(sig_type, 5)

SENIORITY_SCORES(seniority) ==
  CASE seniority \in {"c-suite", "md", "c-suite / md", "c-suite/md"} -> 20
    [] seniority \in {"vp", "director", "vp/director", "vp / director"} -> 15
    [] seniority \in {"senior", "manager", "senior/manager",
                      "senior / manager"} -> 10
    [] seniority = "unknown" -> 5
    [] OTHER -> 5                      \* .get(seniority_raw, 5)

DOMAIN_FIT_SCORES(domain) ==
  CASE domain = "stablecoin" -> 25
    [] domain = "digital_assets" -> 22
    [] domain = "agentic_automation" -> 20
    [] domain = "ai_implementation" -> 16
    [] domain = "ai_compliance_risk" -> 18
    [] domain = "ai_transformation" -> 14
    [] domain = "other" -> 5
    [] OTHER -> 5                      \* .get(domain_raw, 5)

INSTITUTION_SCORES(inst_type) ==
  CASE inst_type = "series a+ fintech" -> 15
    [] inst_type \in {"regional/community bank",
                      "regional / community bank"} -> 12
    [] inst_type = "mid-tier bank" -> 8
    [] inst_type = "unknown" -> 5
    [] OTHER -> 5                      \* .get(inst_type_raw, 5)

Components ==
  {"action_type", "seniority", "domain_fit", "institution_accessibility",
   "recency"}

\* COMPONENT_MAX.get(component, 100)
COMPONENT_MAX(component) ==
  CASE component = "action_type" -> 30
    [] component = "seniority" -> 20
    [] component = "domain_fit" -> 25
    [] component = "institution_accessibility" -> 15
    [] component = "recency" -> 10
    [] OTHER -> 100

\* CATEGORY_COMPONENT_ALIASES.get(key), NULL for None.
CATEGORY_COMPONENT_ALIASES(key) ==
  CASE key \in {"action_strength", "action_type"} -> "action_type"
    [] key \in {"buyer_fit", "institution_accessibility", "institution_fit"}
         -> "institution_accessibility"
    [] key = "domain_fit" -> "domain_fit"
    [] key = "seniority" -> "seniority"
    [] key = "recency" -> "recency"
    [] OTHER -> NULL

Block(category, points) ==
  [category |-> category, points |-> points, seniority_inferred |-> FALSE]

\* {}
EmptyDict == [x \in {} |-> NULL]

\* breakdown[k] = v
Put(d, k, v) == [x \in DOMAIN d \cup {k} |-> IF x = k THEN v ELSE d[x]]

\* sig.get(k, default).lower()
LowerOr(x, default) == Lower(IF x = NULL THEN default ELSE x)

\* parse_signal_date: None for a falsy string, else the stripped string
\* under the two formats.
parse_signal_date(date_str) ==
  IF ~Truthy(date_str) THEN NoDate ELSE parsed_date(Trim(date_str))

\* A recency that gives the youngest bucket to a date that does not parse.
score_recency_Guessed(signal_date_str, today) ==
  Block("<30 days", 10)

\* days_old = (today - parsed).days; parsed is a midnight, so the whole
\* days are the difference of the day numbers.
score_recency(signal_date_str, today) ==
  LET parsed == parse_signal_date(signal_date_str)
      days_old == today.day - parsed
  IN  IF parsed = NoDate THEN Block("unknown", 0)
      ELSE IF days_old < 30 THEN Block("<30 days", 10)
      ELSE IF days_old <= 90 THEN Block("30-90 days", 7)
      ELSE IF days_old <= 180 THEN Block("90-180 days", 4)
      ELSE IF days_old <= 365 THEN Block("180-365 days", 2)
      ELSE Block(">365 days", 0)

\* An override that looks at the signal type and the domain only.
apply_seniority_override_AnySeniority(signal, breakdown) ==
  IF LowerOr(signal.signal_type, "") \in {"partnership", "launch"}
     /\ LowerOr(signal.domain, "") \in {"stablecoin", "digital_assets"}
  THEN Put(breakdown, "seniority",
           [category |-> "inferred (strategic partnership)", points |-> 15,
            seniority_inferred |-> TRUE])
  ELSE breakdown

apply_seniority_override(signal, breakdown) ==
  LET sig_type == LowerOr(signal.signal_type, "")
      domain == LowerOr(signal.domain, "")
      seniority == LowerOr(signal.seniority, "")
  IN  IF /\ sig_type = "partnership"
         /\ domain \in {"stablecoin", "digital_assets"}
         /\ seniority = "unknown"
      THEN Put(breakdown, "seniority",
               [category |-> "inferred (strategic partnership)",
                points |-> 15, seniority_inferred |-> TRUE])
      ELSE IF /\ sig_type = "launch"
              /\ domain \in {"stablecoin", "digital_assets"}
              /\ seniority = "unknown"
      THEN Put(breakdown, "seniority",
               [category |-> "inferred (strategic launch)",
                points |-> 12, seniority_inferred |-> TRUE])
      ELSE breakdown

\* round(num / den) for den > 0: Python rounds a half to the even
\* neighbour.
RoundRatio(num, den) ==
  LET q == num \div den
      r == num % den
  IN  IF 2 * r < den THEN q
      ELSE IF 2 * r > den THEN q + 1
      ELSE IF q % 2 = 0 THEN q ELSE q + 1

\* The (raw_points, max_points) of one category: the component its key
\* resolves to, else the breakdown entry under the key itself, else the
\* neutral 50 of 100.
CategoryPoints(breakdown, key) ==
  LET component == CATEGORY_COMPONENT_ALIASES(key)
  IN  IF component # NULL /\ component \in DOMAIN breakdown
      THEN [raw_points |-> breakdown[component].points,
            max_points |-> COMPONENT_MAX(component)]
      ELSE IF key \in DOMAIN breakdown
      THEN [raw_points |-> breakdown[key].points,
            max_points |-> COMPONENT_MAX(key)]
      ELSE [raw_points |-> 50, max_points |-> 100]

\* A normalisation without the clamp to [0, 1].
Clamped_Unclamped(p) == p.raw_points

\* max_points * max(0.0, min(1.0, raw_points / max_points))
Clamped(p) ==
  IF p.raw_points < 0 THEN 0
  ELSE IF p.raw_points > p.max_points THEN p.max_points
  ELSE p.raw_points

\* _profile_weighted_total: the total.  Every max_points divides 300, so
\* the sum of the contributions is Sum[n] / 300 exactly.
_profile_weighted_total(breakdown, ranking_cfg) ==
  LET categories == ranking_cfg.categories
      Sum[i \in 0..Len(categories)] ==
        IF i = 0 THEN 0
        ELSE LET p == CategoryPoints(breakdown,
                                     Lower(Trim(categories[i].key)))
             IN  Sum[i-1] + categories[i].weight * Clamped(p)
                              * (300 \div p.max_points)
  IN  RoundRatio(Sum[Len(categories)], 300)

\* _profile_weighted_total: the weighted breakdown, by category key; of
\* each entry the integer fields.
weighted_breakdown(breakdown, ranking_cfg) ==
  LET categories == ranking_cfg.categories
      keys == { Lower(Trim(categories[i].key)) : i \in DOMAIN categories }
      cat(k) == CHOOSE i \in DOMAIN categories :
                  /\ Lower(Trim(categories[i].key)) = k
                  /\ \A j \in DOMAIN categories :
                       Lower(Trim(categories[j].key)) = k => j <= i
  IN  [k \in keys |->
         [label |-> categories[cat(k)].label,
          weight |-> categories[cat(k)].weight,
          raw_points |-> CategoryPoints(breakdown, k).raw_points,
          max_points |-> CategoryPoints(breakdown, k).max_points]]

\* Thresholds compared with > instead of >=.
_tier_from_thresholds_Strict(total, thresholds) ==
  IF total > Get(thresholds, "HOT", 80) THEN "HOT"
  ELSE IF total > Get(thresholds, "WARM", 60) THEN "WARM"
  ELSE IF total > Get(thresholds, "NURTURE", 40) THEN "NURTURE"
  ELSE "HOLD"

_tier_from_thresholds(total, thresholds) ==
  IF total >= Get(thresholds, "HOT", 80) THEN "HOT"
  ELSE IF total >= Get(thresholds, "WARM", 60) THEN "WARM"
  ELSE IF total >= Get(thresholds, "NURTURE", 40) THEN "NURTURE"
  ELSE "HOLD"

\* The keys a breakdown of the model can have, in one order.
BreakdownKeys ==
  <<"action_type", "seniority", "domain_fit", "institution_accessibility",
    "recency", "urgency", "custom">>

\* sum(cat.get("points", 0) for cat in breakdown.values() if ...)
SumPoints(breakdown) ==
  LET F[i \in 0..Len(BreakdownKeys)] ==
        IF i = 0 THEN 0
        ELSE IF BreakdownKeys[i] \in DOMAIN breakdown
             THEN F[i-1] + breakdown[BreakdownKeys[i]].points
             ELSE F[i-1]
  IN  F[Len(BreakdownKeys)]

\* No profile: --profile was not given and the report carries none, or
\* loading it raised.
NoProfile == [raised |-> "absent"]

\* The score breakdown after the five programmatic components.
rescored_breakdown(signal, today) ==
  LET sig_type == LowerOr(signal.signal_type, "other")
      seniority_raw == LowerOr(signal.seniority, "unknown")
      domain_raw == LowerOr(signal.domain, "other")
      inst_type_raw == LowerOr(signal.institution_type, "unknown")
      b1 == Put(signal.score_breakdown, "action_type",
                Block(sig_type, ACTION_TYPE_SCORES(sig_type)))
      b2 == Put(b1, "seniority",
                Block(seniority_raw, SENIORITY_SCORES(seniority_raw)))
      b3 == apply_seniority_override(signal, b2)
      b4 == Put(b3, "domain_fit",
                Block(domain_raw, DOMAIN_FIT_SCORES(domain_raw)))
      b5 == Put(b4, "institution_accessibility",
                Block(inst_type_raw, INSTITUTION_SCORES(inst_type_raw)))
  IN  Put(b5, "recency", score_recency(signal.signal_date, today))

\* rescore_signal: the record with its breakdown, total and tier replaced
\* and outreach_angle popped.  Without a profile the record gets no
\* profile_weighted_breakdown and no profile_thresholds: the empty dicts
\* stand for the absent keys.
rescore_signal(signal, profile_config, today) ==
  LET breakdown == rescored_breakdown(signal, today)
      weighted == /\ profile_config.raised = "none"
                  /\ profile_config.ranking.categories # <<>>
      ranking_cfg == profile_config.ranking
      total == IF weighted
               THEN _profile_weighted_total(breakdown, ranking_cfg)
               ELSE SumPoints(breakdown)
      tier == IF weighted
              THEN _tier_from_thresholds(total, ranking_cfg.priority_thresholds)
              ELSE IF total >= 80 THEN "HOT"
              ELSE IF total >= 60 THEN "WARM"
              ELSE IF total >= 40 THEN "NURTURE"
              ELSE "HOLD"
  IN  [institution |-> signal.institution,
       signal_type |-> signal.signal_type,
       seniority |-> signal.seniority,
       domain |-> signal.domain,
       institution_type |-> signal.institution_type,
       signal_date |-> signal.signal_date,
       score_breakdown |-> breakdown,
       total_score |-> total,
       priority_tier |-> tier,
       outreach_angle |-> NULL,
       profile_weighted_breakdown |->
         IF weighted THEN weighted_breakdown(breakdown, ranking_cfg)
         ELSE EmptyDict,
       profile_thresholds |->
         IF weighted THEN ranking_cfg.priority_thresholds ELSE {}]

(***************************************************************************)
(* rescore_signal on its own (specification ScoreSpec): one scored record  *)
(* of the agent, the profile the scorer loaded, and today.                 *)
(***************************************************************************)
\* Breakdowns as the scoring agent returns them: none, its own five
\* components (a guessed recency, a stale inferred seniority), and entries
\* under names of its own.
AgentBreakdowns ==
  { EmptyDict,
    [k \in Components |->
       IF k = "seniority"
       THEN [category |-> "inferred", points |-> 15, seniority_inferred |-> TRUE]
       ELSE Block("guess", 10)],
    [k \in {"urgency"} |-> Block("high", 20)],
    [k \in {"custom"} |-> Block("fit", 80)],
    [k \in {"custom"} |-> Block("fit", 150)],
    [k \in {"custom"} |-> Block("fit", -10)] }

ScoredRecords ==
  [institution : {"acme"},
   signal_type : {"launch", "Partnership", "hire", NULL},
   seniority : {"unknown", "Unknown", "c-suite", NULL},
   domain : {"stablecoin", "digital_assets", "ai_implementation", NULL},
   institution_type : {"series a+ fintech", NULL},
   signal_date : {"2025-03-01", "2024-12-16", "soon", NULL},
   score_breakdown : AgentBreakdowns,
   outreach_angle : {"call them"}]

\* Profile payloads: the two-category scenario, one with a key of its own,
\* one of three weights and one threshold, and one whose weights sum to 99.
ScorePayloads ==
  { [objective |-> "find buying signals", time_window_days |-> 90,
     ranking |-> [categories |-> c, priority_thresholds |-> t]] :
      <<c, t>> \in
        { << << Category("action_strength", "Action", 40),
                Category("recency", "Recency", 60) >>,
             { <<"HOT", 70>>, <<"WARM", 50>>, <<"NURTURE", 30>> } >>,
          << << Category("custom", "Custom", 50),
                Category("seniority", "Seniority", 50) >>,
             { <<"HOT", 75>>, <<"WARM", 62>>, <<"NURTURE", 38>> } >>,
          << << Category("Recency", "Recency", 30),
                Category("domain_fit", "Domain", 33),
                Category("buyer_fit", "Buyer", 37) >>,
             { <<"HOT", 90>> } >>,
          << << Category("recency", "Recency", 30),
                Category("seniority", "Seniority", 69) >>,
             {} >> } }

\* profile_config: None, or the dump of the validated profile; a profile
\* that fails validation leaves it None.
ScoreProfiles ==
  {NoProfile} \cup { validate_profile_dict(p) : p \in ScorePayloads }

ScoreInit ==
  /\ db = EmptyDb /\ conn = NoConn /\ last = NoLast /\ rd = "idle"
  /\ result = NoResult /\ pl = NoPipeline /\ srv = NoServer
  /\ \E signal \in ScoredRecords, profile_config \in ScoreProfiles :
       call = [fn |-> "rescore_signal",
               args |-> [signal |-> signal, profile_config |-> profile_config,
                         today |-> [day |-> Today, seconds |-> 0]],
               calls |-> 0, out |-> <<>>]

CallRescore ==
  /\ call.fn = "rescore_signal"
  /\ call.calls = 0
  /\ call' = [call EXCEPT !.calls = 1,
                !.out = rescore_signal(call.args.signal,
                                       call.args.profile_config,
                                       call.args.today)]
  /\ UNCHANGED <<db, conn, last, rd, result, pl, srv>>

ScoreSpec == ScoreInit /\ [][CallRescore]_vars

Rescored == call.fn = "rescore_signal" /\ call.calls = 1

\* The profile-weighted mode: a validated profile was loaded.
Weighted == call.args.profile_config.raised = "none"

\* C21: whatever breakdown entries the record carries and whether or not a
\* profile is active, rescore_signal sets total_score to an integer from 0
\* to 100.
C21_TotalInRange ==
  Rescored => call.out.total_score \in 0..100

\* The thresholds in force: the profile's in the weighted mode, the fixed
\* defaults otherwise; a threshold the dict leaves out is its default.
ActiveThresholds ==
  LET t == IF Weighted
           THEN call.args.profile_config.ranking.priority_thresholds
           ELSE {}
  IN  [HOT |-> Get(t, "HOT", 80), WARM |-> Get(t, "WARM", 60),
       NURTURE |-> Get(t, "NURTURE", 40)]

\* C22: the tier rescore_signal stores with a record is the function of
\* the total stored with it and the thresholds in force: HOT iff total >=
\* HOT, else WARM iff total >= WARM, else NURTURE iff total >= NURTURE,
\* else HOLD; without a profile the thresholds are 80, 60 and 40.
C22_TierFromTotal ==
  Rescored =>
    LET total == call.out.total_score
        tier == call.out.priority_tier
        t == ActiveThresholds
    IN  /\ tier = "HOT" <=> total >= t.HOT
        /\ tier = "WARM" <=> (total < t.HOT /\ total >= t.WARM)
        /\ tier = "NURTURE" <=> (total < t.WARM /\ total >= t.NURTURE)
        /\ tier = "HOLD" <=> total < t.NURTURE
        /\ ~Weighted => t = [HOT |-> 80, WARM |-> 60, NURTURE |-> 40]

\* A weighted total equal to the profile's HOT threshold of 75 gives HOT.
C22_Witness ==
  /\ Rescored /\ Weighted
  /\ ActiveThresholds.HOT = 75
  /\ call.out.total_score = 75
  /\ call.out.priority_tier = "HOT"

\* 300 * weight * clamp(raw / max, 0, 1): the weighted share of one
\* category, in three-hundredths of a point.
Share(weight, raw, max) ==
  weight * (IF raw < 0 THEN 0 ELSE IF raw > max THEN max ELSE raw)
         * (300 \div max)

\* The component a category key names: the key stripped and lowercased,
\* through the alias table; NULL when the table does not resolve it.
ComponentOf(key) ==
  LET k == Lower(Trim(key))
  IN  IF k \in {"action_strength", "action_type"} THEN "action_type"
      ELSE IF k \in {"buyer_fit", "institution_accessibility",
                     "institution_fit"}
      THEN "institution_accessibility"
      ELSE IF k \in {"domain_fit", "seniority", "recency"} THEN k
      ELSE NULL

ComponentMax ==
  [action_type |-> 30, seniority |-> 20, domain_fit |-> 25,
   institution_accessibility |-> 15, recency |-> 10]

\* The integer nearest to num / 300, the even one of two equally near.
Nearest(num) ==
  CHOOSE n \in 0..100 :
    LET dist == IF 300 * n >= num THEN 300 * n - num ELSE num - 300 * n
    IN  2 * dist <= 300 /\ (2 * dist = 300 => n % 2 = 0)

\* The weighted total of the rescored record: a resolved key takes the
\* points of its component; an unresolved key takes the neutral 50 of 100
\* or, when carried is set and the record's breakdown has an entry under
\* the key, the points of that entry out of 100.
WeightedTotal(carried) ==
  LET categories == call.args.profile_config.ranking.categories
      b == call.out.score_breakdown
      share(i) ==
        LET c == ComponentOf(categories[i].key)
            k == Lower(Trim(categories[i].key))
            w == categories[i].weight
        IN  IF c # NULL THEN Share(w, b[c].points, ComponentMax[c])
            ELSE IF carried /\ k \in DOMAIN b THEN Share(w, b[k].points, 100)
            ELSE Share(w, 50, 100)
      F[i \in 0..Len(categories)] == IF i = 0 THEN 0 ELSE F[i-1] + share(i)
  IN  Nearest(F[Len(categories)])

\* Categories action_strength 40 and recency 60 under thresholds 70/50/30,
\* action points 30 of 30 and recency points 0 of 10.
Scenario ==
  /\ Rescored /\ Weighted
  /\ call.args.profile_config.ranking.priority_thresholds
       = { <<"HOT", 70>>, <<"WARM", 50>>, <<"NURTURE", 30>> }
  /\ call.out.score_breakdown["action_type"].points = 30
  /\ call.out.score_breakdown["recency"].points = 0

AsReported(sig) ==
  [Base EXCEPT
     !.institution = sig.institution, !.signal_type = sig.signal_type,
     !.signal_date = sig.signal_date, !.domain = sig.domain,
     !.institution_type = sig.institution_type, !.seniority = sig.seniority,
     !.total_score = sig.total_score, !.priority_tier = sig.priority_tier,
     !.score_breakdown =
       [action_type |-> sig.score_breakdown["action_type"].points,
        seniority |-> sig.score_breakdown["seniority"].points,
        domain_fit |-> sig.score_breakdown["domain_fit"].points,
        institution_accessibility |->
          sig.score_breakdown["institution_accessibility"].points,
        recency |-> sig.score_breakdown["recency"].points,
        seniority_inferred |->
          sig.score_breakdown["seniority"].seniority_inferred]]

\* The seniority, domain and signal type of the record, letter case aside.
Strategic(kind) ==
  /\ call.args.signal.seniority # NULL
  /\ Lower(call.args.signal.seniority) = "unknown"
  /\ call.args.signal.domain # NULL
  /\ Lower(call.args.signal.domain) \in {"stablecoin", "digital_assets"}
  /\ call.args.signal.signal_type # NULL
  /\ Lower(call.args.signal.signal_type) = kind

\* The seniority_inferred column of the row write_scored_run stores for
\* the rescored record.
StoredFlags ==
  LET d0 == InsertRun(EmptyDb, "t0", 1, 1, ReportName(1), NULL)
      d1 == UpsertScoredSignal(d0, 1, AsReported(call.out), "t1")
  IN  { r.seniority_inferred : r \in d1.signals }

\* C29: rescore_signal gives the seniority component the synthetic score
\* flagged seniority_inferred exactly to the records with seniority
\* "unknown", domain stablecoin or digital_assets and signal type
\* partnership ("inferred (strategic partnership)", 15 points) or launch
\* (12 points), letter case aside; every other record gets the table's
\* points for its seniority and no flag, whatever its breakdown carried;
\* and write_scored_run stores the flag as given.
C29_SeniorityOverride ==
  Rescored =>
    LET block == call.out.score_breakdown["seniority"]
        seniority == call.args.signal.seniority
        table == IF seniority = NULL THEN 5
                 ELSE IF Lower(seniority) = "c-suite" THEN 20
                 ELSE 5
    IN  /\ block.seniority_inferred
             <=> (Strategic("partnership") \/ Strategic("launch"))
        /\ Strategic("partnership") =>
             /\ block.category = "inferred (strategic partnership)"
             /\ block.points = 15
        /\ Strategic("launch") => block.points = 12
        /\ ~block.seniority_inferred => block.points = table
        /\ StoredFlags = {IF block.seniority_inferred THEN 1 ELSE 0}

\* A partnership in digital_assets with unknown seniority: 15 inferred
\* points, stored with the flag set.
C29_Witness ==
  /\ Rescored
  /\ call.args.signal.signal_type = "Partnership"
  /\ call.args.signal.domain = "digital_assets"
  /\ call.args.signal.seniority = "unknown"
  /\ call.out.score_breakdown["seniority"].points = 15
  /\ StoredFlags = {1}

(***************************************************************************)
(* score_recency on its own (specification AgeSpec): a date string and a   *)
(* today that lies a number of days after 2024-12-16.                      *)
(***************************************************************************)
AgeDates ==
  {"2024-12-16", "2025-01", "2025-01 ", "2025-1-5", "2025-02-30", "soon",
   "", BLANK, NULL}

\* Days from 2024-12-16 to today: each side of every bucket's edge, and a
\* date in the future.
Ages == {-3, 0, 1, 29, 30, 31, 89, 90, 91, 179, 180, 181, 364, 365, 366, 400}

AgeInit ==
  /\ db = EmptyDb /\ conn = NoConn /\ last = NoLast /\ rd = "idle"
  /\ result = NoResult /\ pl = NoPipeline /\ srv = NoServer
  /\ \E signal_date_str \in AgeDates, age \in Ages, seconds \in {0, 43200} :
       call = [fn |-> "score_recency",
               args |-> [signal_date_str |-> signal_date_str,
                         today |-> [day |-> CalendarDay("2024-12-16") + age,
                                    seconds |-> seconds]],
               calls |-> 0, out |-> Block("none", -1)]

CallScoreRecency ==
  /\ call.fn = "score_recency"
  /\ call.calls = 0
  /\ call' = [call EXCEPT !.calls = 1,
                !.out = score_recency(call.args.signal_date_str,
                                      call.args.today)]
  /\ UNCHANGED <<db, conn, last, rd, result, pl, srv>>

AgeSpec == AgeInit /\ [][CallScoreRecency]_vars

\* The points of an age in whole days.
Bucket(days) ==
  IF days < 30 THEN 10
  ELSE IF days <= 90 THEN 7
  ELSE IF days <= 180 THEN 4
  ELSE IF days <= 365 THEN 2
  ELSE 0

\* C28: score_recency gives a date of the form YYYY-MM-DD or YYYY-MM
\* (blanks around it aside) the points of its age in whole days, under 30
\* days 10, up to 90 days 7, up to 180 days 4, up to 365 days 2, over 365
\* days 0, and a blank or unparsable date 0; the points do not increase
\* with the age.
C28_RecencyBuckets ==
  (call.fn = "score_recency" /\ call.calls = 1) =>
    LET date == CalendarDay(IF call.args.signal_date_str = NULL THEN NULL
                            ELSE Trim(call.args.signal_date_str))
        days == call.args.today.day - date
    IN  /\ call.out.points \in {10, 7, 4, 2, 0}
        /\ date = NoDate => call.out.points = 0
        /\ date # NoDate => call.out.points = Bucket(days)
        /\ \A a, b \in Ages : a <= b => Bucket(a) >= Bucket(b)

\* 90 days after 2024-12-16 the date is worth 7 points.
C28_Witness ==
  /\ call.fn = "score_recency" /\ call.calls = 1
  /\ call.args.signal_date_str = "2024-12-16"
  /\ call.args.today.day = CalendarDay("2024-12-16") + 90
  /\ call.out.points = 7

(***************************************************************************)
(* rebalance_ai_focus on its own (specification RebalanceSpec): a batch,   *)
(* rebalanced and then rebalanced once more.                               *)
(***************************************************************************)
MaxBatch == 5

\* A priority record, one under an alias, one written with four blanks,
\* a non-priority record with a hint keyword in its summary and one
\* without.
RebalancePool ==
  { Base,
    [Base EXCEPT !.domain = "AI Implementation"],
    [Base EXCEPT !.domain = "ai    implementation"],
    [Base EXCEPT !.domain = "stablecoin", !.summary = HintSummary],
    [Base EXCEPT !.domain = "Crypto"] }

RebalanceInit ==
  /\ db = EmptyDb /\ conn = NoConn /\ last = NoLast /\ rd = "idle"
  /\ result = NoResult /\ pl = NoPipeline /\ srv = NoServer
  /\ \E signals \in SeqsUpTo(RebalancePool, MaxBatch) :
       call = [fn |-> "rebalance_ai_focus", args |-> signals, calls |-> 0,
               out |-> signals, first |-> signals]

\* rebalance_ai_focus(signals) on the batch as the last call left it.
CallRebalance ==
  /\ call.fn = "rebalance_ai_focus"
  /\ call.calls < MaxCalls
  /\ call' = [call EXCEPT !.calls = @ + 1,
                !.out = rebalance_ai_focus(call.out),
                !.first = call.out]
  /\ UNCHANGED <<db, conn, last, rd, result, pl, srv>>

RebalanceSpec == RebalanceInit /\ [][CallRebalance]_vars

PriorityCount(signals) ==
  Cardinality({ i \in DOMAIN signals :
                  _normalize_domain(signals[i].domain) \in _AI_PRIORITY_DOMAINS })

\* Non-priority records whose text has a domain-hint keyword.
HintCount(signals) ==
  Cardinality({ i \in DOMAIN signals :
                  /\ _normalize_domain(signals[i].domain) \notin _AI_PRIORITY_DOMAINS
                  /\ has_ai_hint(signals[i]) })

\* ceil(n * 0.5)
CeilHalf(n) == (n + 1) \div 2

Min2(a, b) == IF a <= b THEN a ELSE b

\* C24: after rebalance_ai_focus the number of priority-domain records is
\* min(ceil(len * 0.5), initial count + number of hint-bearing non-priority
\* records), for every batch size; records are promoted exactly when the
\* initial count is below ceil(len * 0.5) and a hint-bearing record exists.
C24_PromotesToCeil ==
  (call.fn = "rebalance_ai_focus" /\ call.calls = 1) =>
    LET target == CeilHalf(Len(call.args))
        initial == PriorityCount(call.args)
        final == Cardinality({ i \in DOMAIN call.out :
                                 call.out[i].domain \in _AI_PRIORITY_DOMAINS })
    IN  final = IF initial >= target THEN initial
                ELSE Min2(target, initial + HintCount(call.args))

\* The batch with its domains normalized, as one call leaves a batch that
\* meets the target.
Normalized_Batch(signals) ==
  [i \in DOMAIN signals |->
     [signals[i] EXCEPT !.domain = _normalize_domain(@)]]

\* C25: rebalance_ai_focus never demotes, keeps the number and order of
\* the records, changes a batch that meets the target by normalizing its
\* domains only, and is idempotent: a second call returns what the first
\* returned.
C25_Idempotent ==
  (call.fn = "rebalance_ai_focus" /\ call.calls >= 1) =>
    /\ Len(call.out) = Len(call.first)
    /\ \A i \in DOMAIN call.out :
         /\ call.out[i] = [call.first[i] EXCEPT !.domain = call.out[i].domain]
         /\ _normalize_domain(call.first[i].domain) \in _AI_PRIORITY_DOMAINS
              => call.out[i].domain \in _AI_PRIORITY_DOMAINS
    /\ (call.first # <<>> /\ HintCount(call.first) = 0)
         => call.out = Normalized_Batch(call.first)
    /\ call.calls = 2 => call.out = call.first

(***************************************************************************)
(* enforce_output_window on its own (specification WindowSpec).            *)
(***************************************************************************)
MaxWindow == 3

\* Records with a day, a month, the same month again, a word, blanks and
\* no signal_date.
WindowPool ==
  { [Base EXCEPT !.signal_date = "2025-03-01"],
    Base,
    [Base EXCEPT !.institution = "initech"],
    [Base EXCEPT !.signal_date = "soon", !.institution = "hooli"],
    [Base EXCEPT !.signal_date = BLANK, !.institution = "globex"],
    [Base EXCEPT !.signal_date = NULL] }

WindowInit ==
  /\ db = EmptyDb /\ conn = NoConn /\ last = NoLast /\ rd = "idle"
  /\ result = NoResult /\ pl = NoPipeline /\ srv = NoServer
  /\ \E signals \in SeqsUpTo(WindowPool, MaxWindow),
        min_count \in 0..MaxWindow, max_count \in 0..MaxWindow :
       /\ min_count <= max_count
       /\ call = [fn |-> "enforce_output_window",
                  args |-> [signals |-> signals, min_count |-> min_count,
                            max_count |-> max_count],
                  calls |-> 0, out |-> <<>>]

CallWindow ==
  /\ call.fn = "enforce_output_window"
  /\ call.calls = 0
  /\ call' = [call EXCEPT !.calls = 1,
                !.out = enforce_output_window(call.args.signals,
                                              call.args.min_count,
                                              call.args.max_count)]
  /\ UNCHANGED <<db, conn, last, rd, result, pl, srv>>

WindowSpec == WindowInit /\ [][CallWindow]_vars

Windowed == call.fn = "enforce_output_window" /\ call.calls = 1

\* How often record r stands in the list.
Count(sigs, r) == Cardinality({ i \in DOMAIN sigs : sigs[i] = r })

\* The input records the window did not return.
Dropped ==
  { r \in Records(call.args.signals) :
      Count(call.args.signals, r) > Count(call.out, r) }

\* The sort key of a record: its signal_date as a string, "" when absent.
DateKey(r) == Chars(r.signal_date)

\* C26: enforce_output_window returns min(len, max_count) records, each
\* an input record and none more often than the input has it, in
\* descending order of signal_date, no dropped record having a greater
\* signal_date than a returned one; fewer records than min_count are
\* returned all the same.
C26_Window ==
  Windowed =>
    /\ Len(call.out) = Min2(Len(call.args.signals), call.args.max_count)
    /\ \A r \in Records(call.out) :
         Count(call.out, r) <= Count(call.args.signals, r)
    /\ \A i, j \in DOMAIN call.out :
         i < j => ~LexLess(DateKey(call.out[i]), DateKey(call.out[j]))
    /\ \A r \in Records(call.out), s \in Dropped :
         ~LexLess(DateKey(r), DateKey(s))
    /\ Len(call.args.signals) < call.args.min_count
         => /\ Len(call.out) = Len(call.args.signals)
            /\ Records(call.out) = Records(call.args.signals)

\* One record where two are wanted: it is returned.
C26_Witness ==
  /\ Windowed
  /\ call.args.min_count = 2 /\ call.args.max_count = 3
  /\ call.args.signals = <<Base>>
  /\ call.out = <<Base>>

\* The signal_date reads as YYYY-MM-DD or YYYY-MM.
Parseable(r) == CalendarDay(r.signal_date) # NoDate

\* C27: in the window's order no record with a blank or unparsable
\* signal_date stands before one with a parseable signal_date, and none is
\* returned while a parseable one is dropped.
C27_UnparsableLast ==
  Windowed =>
    /\ \A i, j \in DOMAIN call.out :
         (i < j /\ Parseable(call.out[j])) => Parseable(call.out[i])
    /\ \A r \in Records(call.out), s \in Dropped :
         Parseable(s) => Parseable(r)

(***************************************************************************)
(* The end of a pipeline run (specification ServerLiveSpec).               *)
(***************************************************************************)
\* The stream of request r has set running and has not reached the end of
\* its finally block.
Streaming(r) == srv.reqs[r].pc \in {"streaming", "subprocess"}

Ended(r) == srv.reqs[r].pc \in {"finished", "raised"}

\* The step that ends the stream of r clears running, sets last_run_at
\* and leaves last_status "done" when no subprocess of r exited non-zero,
\* "error" otherwise.
EndsWithStatus(r) ==
  (Streaming(r) /\ Ended(r)') =>
    /\ srv'.running = FALSE
    /\ srv'.last_run_at # 0
    /\ srv'.last_status = IF srv.reqs[r].failed_runs = 0 THEN "done"
                          ELSE "error"

\* C30: every stream that has set running ends, and the step that ends it
\* clears running, sets last_run_at and leaves last_status "done" iff no
\* subprocess exited non-zero and "error" otherwise, whether the
\* subprocesses succeed, fail or raise.
C30_RunEnds ==
  /\ \A r \in Requests : Streaming(r) ~> Ended(r)
  /\ [][\A r \in Requests : EndsWithStatus(r)]_vars

====
